---------------------------- MODULE Spec2Model ----------------------------
(***************************************************************************)
(* Verification model of the neo-clock-esp render-and-telemetry pipeline:  *)
(*   - MatrixDisplayUi : page rotation state machine and frame pacing      *)
(*   - Liveview_       : two-phase frame capture (sample / flush)          *)
(*   - PeripheryManager_: audio spectrum worker and its lock-protected     *)
(*                        band buffer                                      *)
(*   - loop()          : the cooperative host loop                         *)
(***************************************************************************)
EXTENDS Integers, Sequences, FiniteSets, TLC

(***************************************************************************)
(* IEEE-754 binary32 arithmetic, as far as MatrixDisplayUi uses it.        *)
(* A positive float is a record [m, e] standing for m * 2^e with           *)
(* 2^23 <= m < 2^24; zero is [m |-> 0, e |-> 0].  Every operation rounds   *)
(* to nearest, ties to even, as the hardware does.                         *)
(***************************************************************************)
RECURSIVE Pow2(_)
Pow2(n) == IF n <= 0 THEN 1 ELSE 2 * Pow2(n - 1)

F32Zero == [m |-> 0, e |-> 0]

\* Number of left shifts that bring n > 0 into [2^23, 2^24).
RECURSIVE NormShift(_)
NormShift(n) == IF n >= 8388608 THEN 0 ELSE 1 + NormShift(2 * n)

\* (float)n for an integer 0 <= n < 2^24 (exact).
IntToF32(n) ==
  IF n = 0 THEN F32Zero
  ELSE LET k == NormShift(n) IN [m |-> n * Pow2(k), e |-> 0 - k]

\* Round q (an integer mantissa with one guard bit g and a sticky flag) to
\* nearest-even and renormalise.
RoundPack(q, g, sticky, e) ==
  LET up == g = 1 /\ (sticky \/ q % 2 = 1)
      q1 == IF up THEN q + 1 ELSE q
  IN IF q1 = 16777216 THEN [m |-> 8388608, e |-> e + 1] ELSE [m |-> q1, e |-> e]

\* Long division: `bits` further quotient bits of r / d, r < d.
\* Result <<quotient, remainder>>.
RECURSIVE DivBits(_, _, _, _)
DivBits(q, r, d, bits) ==
  IF bits = 0 THEN <<q, r>>
  ELSE LET r2 == 2 * r
       IN IF r2 >= d THEN DivBits(2 * q + 1, r2 - d, d, bits - 1)
                     ELSE DivBits(2 * q, r2, d, bits - 1)

\* x / y in binary32, x and y positive or x zero.
F32Div(x, y) ==
  IF x.m = 0 THEN F32Zero
  ELSE LET ge   == x.m >= y.m
           \* integer part of mx/my is 1 when ge, else the first bit is a fraction bit
           q0   == IF ge THEN 1 ELSE 0
           r0   == IF ge THEN x.m - y.m ELSE x.m
           nb   == IF ge THEN 23 ELSE 24
           qr   == DivBits(q0, r0, y.m, nb)
           gr   == DivBits(0, qr[2], y.m, 1)
       IN RoundPack(qr[1], gr[1], gr[2] # 0, x.e - y.e - nb)

\* x * 1000.0f in binary32: 1000 = 125 * 2^3, and m * 125 < 2^31.
F32Mul1000(x) ==
  IF x.m = 0 THEN F32Zero
  ELSE LET p  == x.m * 125
           s  == IF p >= 1073741824 THEN 7 ELSE 6       \* p in [2^29, 2^31)
           d  == Pow2(s)
           q  == p \div d
           rm == p % d
           g  == IF rm >= d \div 2 THEN 1 ELSE 0
           st == (rm % (d \div 2)) # 0
       IN RoundPack(q, g, st, x.e + 3 + s)

\* (int)x / (long)x for a float x >= 0 : truncation toward zero.
F32Trunc(x) ==
  IF x.m = 0 THEN 0
  ELSE IF x.e >= 0 THEN x.m * Pow2(x.e)
  ELSE IF x.e <= -24 THEN 0
  ELSE x.m \div Pow2(0 - x.e)

\* setTargetFPS: updateInterval = ((float)1.0 / (float)fps) * 1000
IntervalOfFPS(fps) == F32Mul1000(F32Div(IntToF32(1), IntToF32(fps)))

\* setTimePerApp / setTimePerTransition / tick:
\*   (int)((float)time / (float)updateInterval)
TicksOf(time, interval) == F32Trunc(F32Div(IntToF32(time), interval))

(***************************************************************************)
(* Model bounds.                                                           *)
(***************************************************************************)
\* update() is not called once ticksSinceLastStateSwitch has passed this
\* value (it grows without limit while the registry is empty).
MaxTicks == 6
\* The scenario runs stop after this many ticks.
MaxScenarioTicks == 170
\* Largest page index a navigation request carries (uint8_t app).
MaxAppArg == 2
\* Largest value an uninitialised int field is taken to hold.
MaxGarbage == 1
\* Largest number of pages in the registries of the navigation runs.
MaxPages == 3

(***************************************************************************)
(* Program constants.                                                      *)
(***************************************************************************)
\* getNextAppNumber: int enabledIndices[16]
MaxEnabledIndices == 16
\* drawApp: the page height used for the slide offset (8 * progress)
PageHeight == 8

FIXED == "FIXED"
IN_TRANSITION == "IN_TRANSITION"
SLIDE_UP == "SLIDE_UP"
SLIDE_DOWN == "SLIDE_DOWN"

Min(a, b) == IF a < b THEN a ELSE b
Max(a, b) == IF a > b THEN a ELSE b

(***************************************************************************)
(* The MatrixDisplayUi object.  `ui` holds the private fields and the      *)
(* MatrixDisplayUiState struct (field `state`).  One field is not part of  *)
(* the C++ object: `calls` counts the getNextAppNumber() invocations of    *)
(* the handler that ran last.                                              *)
(***************************************************************************)

\* struct MatrixDisplayUiState, with its default member initialisers.
InitUiState ==
  [ appState |-> FIXED,
    currentApp |-> 0,
    ticksSinceLastStateSwitch |-> 0,
    appTransitionDirection |-> 1,
    manuelControll |-> FALSE,
    lastUpdate |-> 0,
    cachedNextApp |-> -1 ]

\* struct AppData: the fields the scheduler reads.
AppData(enabled, duration) == [enabled |-> enabled, duration |-> duration]

\* _rebuildEnabledCount
EnabledCount(appList) ==
  Cardinality({i \in 1..Len(appList) : appList[i].enabled})

\* setApps
setApps(u, appList) ==
  [u EXCEPT !.apps = appList,
            !.AppCount = Len(appList),
            !.enabledAppCount = EnabledCount(appList)]

\* setTargetFPS, setTimePerApp, setTimePerTransition in the order every
\* caller uses (DisplayManager_::setup, applyAllSettings).  setTargetFPS
\* also rescales ticksPerApp and ticksPerTransition; both are overwritten
\* by the two calls that follow.
setTiming(u, fps, timePerApp, timePerTransition) ==
  LET iv == IntervalOfFPS(fps)
  IN [u EXCEPT !.updateInterval = iv,
               !.ticksPerApp = TicksOf(timePerApp, iv),
               !.ticksPerTransition = TicksOf(timePerTransition, iv)]

\* enablesetAutoTransition / disablesetAutoTransition
setAuto(u, on) == [u EXCEPT !.setAutoTransition = on]

\* getNextAppNumber: the 0-based indices of the enabled pages, in order,
\* at most 16 of them.
EnabledIndices(appList) ==
  LET idx == [i \in 1..Len(appList) |-> i - 1]
      en  == SelectSeq(idx, LAMBDA i : appList[i + 1].enabled)
  IN SubSeq(en, 1, Min(Len(en), MaxEnabledIndices))

\* Position (0-based) of app in the enabled list, 0 when absent.
RECURSIVE FindPos(_, _, _)
FindPos(en, app, i) ==
  IF i >= Len(en) THEN 0
  ELSE IF en[i + 1] = app THEN i
  ELSE FindPos(en, app, i + 1)

\* getNextAppNumber: the value returned.
NextAppValue(u) ==
  IF u.nextAppNumber # -1 THEN u.nextAppNumber
  ELSE LET en == EnabledIndices(u.apps)
           n  == Len(en)
       IN IF n = 0 THEN 0
          ELSE LET currentPos == FindPos(en, u.state.currentApp, 0)
                   nextPos == (currentPos + n + u.state.appTransitionDirection) % n
               IN en[nextPos + 1]

\* getNextAppNumber: the object after the call (a pending manual target
\* is consumed).
NextAppConsumed(u) ==
  [u EXCEPT !.nextAppNumber = -1, !.calls = @ + 1]

\* state.cachedNextApp = getNextAppNumber()
LockTarget(u) ==
  [NextAppConsumed(u) EXCEPT !.state.cachedNextApp = NextAppValue(u)]

\* nextApp / previousApp without the test of the state: a request restarts a
\* running transition.
stepApp_unguarded(u, dir) ==
  LockTarget(
    [u EXCEPT !.state.manuelControll = TRUE,
              !.state.appState = IN_TRANSITION,
              !.state.ticksSinceLastStateSwitch = 0,
              !.lastTransitionDirection = u.state.appTransitionDirection,
              !.state.appTransitionDirection = dir])

\* nextApp / previousApp (dir = 1 / -1)
stepApp(u, dir) ==
  IF u.state.appState # IN_TRANSITION
  THEN LockTarget(
         [u EXCEPT !.state.manuelControll = TRUE,
                   !.state.appState = IN_TRANSITION,
                   !.state.ticksSinceLastStateSwitch = 0,
                   !.lastTransitionDirection = u.state.appTransitionDirection,
                   !.state.appTransitionDirection = dir])
  ELSE u

nextApp(u) == stepApp(u, 1)
previousApp(u) == stepApp(u, -1)

\* transitionToApp without the test of the index against AppCount.
transitionToApp_unchecked(u, app) ==
  LET u1 == [u EXCEPT !.state.ticksSinceLastStateSwitch = 0]
  IN IF app = u.state.currentApp THEN u1
     ELSE LockTarget(
            [u1 EXCEPT !.nextAppNumber = app,
                       !.lastTransitionDirection = u.state.appTransitionDirection,
                       !.state.manuelControll = TRUE,
                       !.state.appState = IN_TRANSITION,
                       !.state.appTransitionDirection =
                          IF app < u.state.currentApp THEN -1 ELSE 1])

\* transitionToApp
transitionToApp(u, app) ==
  IF app >= u.AppCount THEN u
  ELSE LET u1 == [u EXCEPT !.state.ticksSinceLastStateSwitch = 0]
       IN IF app = u.state.currentApp THEN u1
          ELSE LockTarget(
                 [u1 EXCEPT !.nextAppNumber = app,
                            !.lastTransitionDirection = u.state.appTransitionDirection,
                            !.state.manuelControll = TRUE,
                            !.state.appState = IN_TRANSITION,
                            !.state.appTransitionDirection =
                               IF app < u.state.currentApp THEN -1 ELSE 1])

\* The tick budget loaded for page `app` when it becomes current.
DurationTicks(u, app, globalTime) ==
  IF app < Len(u.apps) /\ u.apps[app + 1].duration > 0
  THEN TicksOf(u.apps[app + 1].duration, u.updateInterval)
  ELSE TicksOf(globalTime, u.updateInterval)

\* switchToApp
switchToApp(u, app) ==
  IF app >= u.AppCount THEN u
  ELSE IF app = u.state.currentApp THEN u
  ELSE [u EXCEPT !.state.currentApp = app,
                 !.state.ticksSinceLastStateSwitch = 0,
                 !.state.appState = FIXED,
                 !.state.cachedNextApp = -1,
                 !.ticksPerApp =
                    IF u.apps[app + 1].duration > 0
                    THEN TicksOf(u.apps[app + 1].duration, u.updateInterval)
                    ELSE @]

\* Auto-rotation decided from the enabled count alone, without the switch.
AutoRotateAllowed_countOnly(u) == u.enabledAppCount > 1

\* Auto-rotation decided from the switch alone, without the enabled count.
AutoRotateAllowed_switchOnly(u) == u.setAutoTransition

\* tick, FIXED case: the condition under which auto-rotation starts a
\* transition once the page's tick budget is used up.
AutoRotateAllowed(u) == u.setAutoTransition /\ u.enabledAppCount > 1

\* tick: the state machine step (everything before matrix->clear()).
tickState(u, globalTime) ==
  LET u1 == [u EXCEPT !.state.ticksSinceLastStateSwitch = @ + 1]
  IN IF u1.AppCount <= 0 THEN u1
     ELSE IF u1.state.appState = IN_TRANSITION
     THEN IF u1.state.ticksSinceLastStateSwitch >= u1.ticksPerTransition
          THEN LET c == u1.state.cachedNextApp
                   nextAppIdx == IF c < 0 \/ c >= Len(u1.apps) THEN 0 ELSE c
               IN [u1 EXCEPT !.state.appState = FIXED,
                             !.state.currentApp = nextAppIdx,
                             !.state.cachedNextApp = -1,
                             !.state.ticksSinceLastStateSwitch = 0,
                             !.ticksPerApp = DurationTicks(u1, nextAppIdx, globalTime)]
          ELSE u1
     ELSE LET u2 == IF u1.state.manuelControll
                    THEN [u1 EXCEPT !.state.appTransitionDirection = u1.lastTransitionDirection,
                                    !.state.manuelControll = FALSE]
                    ELSE u1
          IN IF u2.state.ticksSinceLastStateSwitch >= u2.ticksPerApp
             THEN LET u3 == IF AutoRotateAllowed(u2)
                            THEN LockTarget([u2 EXCEPT !.state.appState = IN_TRANSITION])
                            ELSE u2
                  IN [u3 EXCEPT !.state.ticksSinceLastStateSwitch = 0]
             ELSE u2

\* Stands for a slide offset the C++ code leaves undefined (a float that is
\* NaN or infinite converted to int16_t); outside the int16_t range.
UndefinedOffset == 100000

\* drawApp: y = 8 * progress (SLIDE_DOWN) or -8 * progress (SLIDE_UP), with
\* progress = (float)ticksSinceLastStateSwitch / (float)ticksPerTransition,
\* truncated to int16_t.
SlideY(u) ==
  IF u.ticksPerTransition = 0 THEN UndefinedOffset
  ELSE LET pr == F32Div(IntToF32(u.state.ticksSinceLastStateSwitch),
                        IntToF32(u.ticksPerTransition))
           y8 == F32Trunc([pr EXCEPT !.e = @ + 3])
       IN IF u.appAnimationDirection = SLIDE_UP THEN 0 - y8
          ELSE IF u.appAnimationDirection = SLIDE_DOWN THEN y8
          ELSE 0

\* drawApp: y1 = y + 8 (SLIDE_UP) or y - 8 (SLIDE_DOWN).
SlideY1(u, y) ==
  IF y = UndefinedOffset THEN UndefinedOffset
  ELSE IF u.appAnimationDirection = SLIDE_UP THEN y + PageHeight
  ELSE IF u.appAnimationDirection = SLIDE_DOWN THEN y - PageHeight
  ELSE 0

Signed(y, dir) == IF y = UndefinedOffset THEN UndefinedOffset ELSE y * dir

\* drawApp without the tests of the page indices against apps.size().
drawApp_unchecked(u) ==
  IF Len(u.apps) = 0 THEN << >>
  ELSE IF u.state.appState = IN_TRANSITION
  THEN LET c == u.state.cachedNextApp
           nextAppIdx == IF c < 0 THEN u.state.currentApp ELSE c
           dir == IF u.state.appTransitionDirection >= 0 THEN 1 ELSE -1
           y == SlideY(u)
           y1 == SlideY1(u, y)
       IN << [app |-> u.state.currentApp, y |-> Signed(y, dir), player |-> "player1"],
             [app |-> nextAppIdx, y |-> Signed(y1, dir), player |-> "player2"] >>
  ELSE << [app |-> u.state.currentApp, y |-> 0, player |-> "player1"] >>

\* drawApp: the page callbacks invoked, in order, as
\* [app, y, player] records.
drawApp(u) ==
  IF Len(u.apps) = 0 THEN << >>
  ELSE IF u.state.appState = IN_TRANSITION
  THEN LET c == u.state.cachedNextApp
           nextAppIdx == IF c < 0 \/ c >= Len(u.apps) THEN u.state.currentApp ELSE c
           dir == IF u.state.appTransitionDirection >= 0 THEN 1 ELSE -1
           y == SlideY(u)
           y1 == SlideY1(u, y)
       IN (IF u.state.currentApp < Len(u.apps)
           THEN << [app |-> u.state.currentApp, y |-> Signed(y, dir), player |-> "player1"] >>
           ELSE << >>)
          \o
          (IF nextAppIdx < Len(u.apps)
           THEN << [app |-> nextAppIdx, y |-> Signed(y1, dir), player |-> "player2"] >>
           ELSE << >>)
  ELSE IF u.state.currentApp < Len(u.apps)
       THEN << [app |-> u.state.currentApp, y |-> 0, player |-> "player1"] >>
       ELSE << >>

\* tick: the page callbacks invoked after matrix->clear().
tickDraws(u) == IF u.AppCount > 0 THEN drawApp(u) ELSE << >>

\* drawOverlays: the overlay callbacks invoked, all with player2.
\* setOverlays is never called, so overlayCount and overlayFunctions hold
\* whatever the allocation held.
drawOverlays(u) ==
  [i \in 1..u.overlayCount |-> [overlay |-> i - 1, player |-> "player2"]]

\* tick: the steps after the state machine, in order: matrix->clear(), the
\* page callbacks, the overlay callbacks, gammaCorrection(), matrix->show().
tickFrame(u) ==
  <<"clear">>
    \o [i \in 1..Len(tickDraws(u)) |-> "page"]
    \o [i \in 1..Len(drawOverlays(u)) |-> "overlay"]
    \o <<"gamma", "show">>

\* tick: the scheduler object after the call.
tick(u, globalTime) == tickState(u, globalTime)

\* update: long timeBudget = (long)updateInterval - (long)(appStart - lastUpdate).
\* appStart and lastUpdate are unsigned long readings of millis(); in the
\* model appStart >= lastUpdate, so the difference does not wrap.
TimeBudget(u, appStart) ==
  F32Trunc(u.updateInterval) - (appStart - u.state.lastUpdate)

\* The late time rounded up to whole intervals instead of down.
CatchUp_roundedUp(timeBudget, interval) ==
  ((0 - timeBudget) + interval - 1) \div interval

\* update: (int)(-timeBudget / (long)updateInterval), the ticks added for a
\* late frame.
CatchUp(timeBudget, interval) == (0 - timeBudget) \div interval

\* The condition of the earlier update(): catch-up only under auto-rotation.
CatchUpApplies_autoOnly(u) == u.setAutoTransition /\ u.state.lastUpdate # 0

\* update: whether this call adds catch-up ticks at all.
CatchUpApplies(u) == u.state.lastUpdate # 0

\* update: the part that runs before tick() when the frame is due: the
\* catch-up for a late frame, then lastUpdate = appStart.
updatePace(u, appStart) ==
  LET timeBudget == TimeBudget(u, appStart)
      u1 == IF CatchUpApplies(u)
            THEN [u EXCEPT !.state.ticksSinceLastStateSwitch =
                              @ + CatchUp(timeBudget, F32Trunc(u.updateInterval))]
            ELSE u
  IN [u1 EXCEPT !.state.lastUpdate = appStart]

\* update, with millis() reading appStart.
update(u, appStart, globalTime) ==
  IF TimeBudget(u, appStart) <= 0
  THEN tick(updatePace(u, appStart), globalTime)
  ELSE u

(***************************************************************************)
(* State.                                                                  *)
(***************************************************************************)
VARIABLES
  ui,            \* the MatrixDisplayUi object
  TIME_PER_APP,  \* Globals.cpp: the global page duration (ms), read by tick
  drawn,         \* page callbacks invoked by the handler that ran last
  frameOps,      \* matrix steps of the tick the last handler fired, if any
  quiet,         \* history: consecutive ticks that left currentApp unchanged
  nTicks,        \* history: number of ticks fired
  late,          \* history: -timeBudget of the update() that fired last
  caughtUp,      \* history: ticks that update() added before calling tick()
  firstUpdate,   \* history: that update() found lastUpdate == 0
  lastCall,      \* history: the scheduler entry point called last
  shown          \* history: a frame was drawn in the transition under way

\* PeripheryManager_: the audio worker and the band buffer it shares.
VARIABLES
  audioMutex,    \* _audioMutex: absent, free, or the side that holds it
  sharedBands,   \* _sharedBands
  tempBands,     \* processAudio: tempBands
  producer,      \* the audio task: its position in audioTask / processAudio
  consumer,      \* the render thread's position in getSpectrumData
  outputBands,   \* the caller's buffer passed to getSpectrumData
  complete,      \* history: the band array last published in full
  readHist       \* history of the getSpectrumData call in progress

\* main.cpp loop(), Liveview_ and the LED buffer.
VARIABLES
  leds,          \* the LED buffer, by physical index
  lv,            \* the Liveview_ object
  connected,     \* WebConfigManager.isConnected()
  subscribers,   \* ws->connectedClients() > 0 && EnableLiveview
  loopPc,        \* position in loop()
  loopCalls,     \* history: calls made so far in this loop() iteration
  lvHist         \* history of samples and publishes

histVars == <<quiet, nTicks, late, caughtUp, firstUpdate>>
uiVars == <<ui, TIME_PER_APP, drawn, frameOps, quiet, nTicks, late, caughtUp,
           firstUpdate, lastCall, shown>>
audioVars == <<audioMutex, sharedBands, tempBands, producer, consumer,
               outputBands, complete, readHist>>
liveVars == <<leds, lv, connected, subscribers, loopPc, loopCalls, lvHist>>
vars == <<uiVars, audioVars, liveVars>>

(***************************************************************************)
(* Inputs the model draws from.                                            *)
(***************************************************************************)
\* Values an uninitialised int member may hold.
Garbage == (-1)..MaxGarbage
\* Values the uninitialised uint8_t overlayCount may hold.
OverlayGarbage == 0..MaxGarbage

\* Registries handed to setApps (pages as AppData(enabled, duration ms)).
Registries ==
  { << >>,
    << AppData(FALSE, 0), AppData(TRUE, 0) >>,
    << AppData(TRUE, 0), AppData(TRUE, 67) >>,
    << AppData(TRUE, 0), AppData(FALSE, 0), AppData(TRUE, 34) >>,
    << AppData(TRUE, 34), AppData(TRUE, 0) >>,
    << AppData(FALSE, 0) >> }

\* Settings (MATRIX_FPS, TIME_PER_APP, TIME_PER_TRANSITION, AUTO_TRANSITION).
Settings ==
  { [fps |-> 30, appTime |-> a, transition |-> t, auto |-> b] :
      a \in {100}, t \in {67}, b \in BOOLEAN }

\* Settings of the tick-only runs: TIME_PER_TRANSITION may also be shorter
\* than one frame interval.
PacingSettings ==
  { [fps |-> 30, appTime |-> 100, transition |-> t, auto |-> b] :
      t \in {16, 67}, b \in BOOLEAN }

\* Milliseconds between lastUpdate and the millis() an update() call reads.
ElapsedChoices == {16, 33, 66}

\* The clock reading kept for a scheduler that has been updated.  update()
\* reads lastUpdate only in (appStart - lastUpdate) and (lastUpdate != 0),
\* so the model re-bases the clock after every call: the time of the last
\* fired update is Epoch.
Epoch == 1

(***************************************************************************)
(* Initial state: the object as DisplayManager_::setMatrixLayout builds it *)
(* (new MatrixDisplayUi(matrix)), configured by DisplayManager_::setup,    *)
(* loadNativeApps and applyAllSettings.  The constructor sets only         *)
(* `matrix`; nextAppNumber keeps whatever the allocation held.             *)
(* lastTransitionDirection is uninitialised too, but every path that sets  *)
(* manuelControll assigns it first, so it is never read before written:    *)
(* it starts as 0, which is no direction.                                  *)
(***************************************************************************)
NewUi(garbageNext) ==
  [ state |-> InitUiState,
    apps |-> << >>,
    AppCount |-> 0,
    enabledAppCount |-> 0,
    ticksPerApp |-> 0,
    ticksPerTransition |-> 0,
    updateInterval |-> F32Zero,
    appAnimationDirection |-> SLIDE_DOWN,
    nextAppNumber |-> garbageNext,
    lastTransitionDirection |-> 0,
    setAutoTransition |-> FALSE,
    overlayCount |-> 0,
    calls |-> 0 ]

ConfiguredUi(garbageNext, reg, cfg) ==
  setAuto(setTiming(setApps(NewUi(garbageNext), reg),
                    cfg.fps, cfg.appTime, cfg.transition),
          cfg.auto)

\* No entry point has been called.
NoCall == [name |-> "none", app |-> 0]

InitHist ==
  /\ drawn = << >>
  /\ frameOps = << >>
  /\ quiet = 0
  /\ nTicks = 0
  /\ late = 0
  /\ caughtUp = 0
  /\ firstUpdate = FALSE
  /\ lastCall = NoCall
  /\ shown = FALSE

InitScheduler ==
  /\ \E g \in Garbage, reg \in Registries, cfg \in Settings :
        /\ ui = ConfiguredUi(g, reg, cfg)
        /\ TIME_PER_APP = cfg.appTime
  /\ InitHist

\* The same, with the uninitialised overlayCount followed as well.  The
\* state machine never reads it; only the frame a tick draws depends on it.
InitSchedulerOverlays ==
  /\ \E g \in Garbage, oc \in OverlayGarbage, reg \in Registries,
        cfg \in PacingSettings :
        /\ ui = [ConfiguredUi(g, reg, cfg) EXCEPT !.overlayCount = oc]
        /\ TIME_PER_APP = cfg.appTime
  /\ InitHist

(***************************************************************************)
(* Actions: one per entry point of the scheduler.                          *)
(***************************************************************************)
\* The handler about to run has made no getNextAppNumber() call yet.
Fresh(u) == [u EXCEPT !.calls = 0]

Rebase(u) ==
  [u EXCEPT !.state.lastUpdate = IF @ = 0 THEN 0 ELSE Epoch]

Fired(elapsed) == TimeBudget(ui, ui.state.lastUpdate + elapsed) <= 0

\* The tick counter is followed up to MaxTicks ticks past a state switch.
TicksBounded == ui.state.ticksSinceLastStateSwitch <= MaxTicks

\* Whether a frame has been drawn in IN_TRANSITION since the scheduler left
\* FIXED, after a handler that leaves the object as `new` and has, or has
\* not, fired a tick.
ShownAfter(new, fired) ==
  /\ new.state.appState = IN_TRANSITION
  /\ fired \/ (ui.state.appState = IN_TRANSITION /\ shown)

\* DisplayManager_::tick -> ui->update(), millis() = lastUpdate + elapsed.
UpdateUi(elapsed) ==
  LET appStart == ui.state.lastUpdate + elapsed
      new == update(Fresh(ui), appStart, TIME_PER_APP)
  IN /\ ui' = Rebase(new)
     /\ drawn' = IF Fired(elapsed) THEN tickDraws(new) ELSE << >>
     /\ frameOps' = IF Fired(elapsed) THEN tickFrame(new) ELSE << >>
     /\ shown' = ShownAfter(new, Fired(elapsed))
     /\ UNCHANGED TIME_PER_APP

\* A handler that is not update(): it draws nothing and fires no tick.
Handler(new) ==
  /\ ui' = new
  /\ drawn' = << >>
  /\ frameOps' = << >>
  /\ shown' = ShownAfter(new, FALSE)
  /\ UNCHANGED <<histVars, lastCall, audioVars, liveVars>>

\* DisplayManager_::nextApp / rightButton
NextApp == Handler(nextApp(Fresh(ui))) /\ UNCHANGED TIME_PER_APP

\* DisplayManager_::previousApp / leftButton
PreviousApp == Handler(previousApp(Fresh(ui))) /\ UNCHANGED TIME_PER_APP

\* MatrixDisplayUi::transitionToApp(app)
TransitionToApp(app) == Handler(transitionToApp(Fresh(ui), app)) /\ UNCHANGED TIME_PER_APP

\* MatrixDisplayUi::switchToApp(app)
SwitchToApp(app) == Handler(switchToApp(Fresh(ui), app)) /\ UNCHANGED TIME_PER_APP

\* DisplayManager_::loadNativeApps -> ui->setApps(Apps)
LoadApps(reg) == Handler(setApps(Fresh(ui), reg)) /\ UNCHANGED TIME_PER_APP

\* DisplayManager_::setNewSettings -> applyAllSettings
ApplySettings(cfg) ==
  /\ Handler(setAuto(setTiming(Fresh(ui), cfg.fps, cfg.appTime, cfg.transition), cfg.auto))
  /\ TIME_PER_APP' = cfg.appTime

\* update() in the full system: pacing history is not tracked here.
UpdateCall ==
  \E elapsed \in ElapsedChoices :
     /\ TicksBounded
     /\ UpdateUi(elapsed)
     /\ UNCHANGED <<histVars, lastCall, audioVars, liveVars>>

Next ==
  \/ UpdateCall
  \/ NextApp
  \/ PreviousApp
  \/ \E app \in 0..MaxAppArg : TransitionToApp(app)
  \/ \E app \in 0..MaxAppArg : SwitchToApp(app)
  \/ \E reg \in Registries : LoadApps(reg)
  \/ \E cfg \in Settings : ApplySettings(cfg)


(***************************************************************************)
(* The scheduler driven by update() and the navigation requests, over      *)
(* every registry of up to MaxPages pages, with the entry point called     *)
(* last recorded.                                                          *)
(***************************************************************************)
\* Registries of n pages with every combination of enabled flags.
PagesOf(n) ==
  { [i \in 1..n |-> AppData(f[i], 0)] : f \in [1..n -> BOOLEAN] }
NavRegistries == UNION { PagesOf(n) : n \in 0..MaxPages }

InitSchedulerNav ==
  /\ \E reg \in NavRegistries, cfg \in Settings :
        /\ ui = ConfiguredUi(-1, reg, cfg)
        /\ TIME_PER_APP = cfg.appTime
  /\ InitHist

\* An entry point other than update(), recorded.
Request(name, app, new) ==
  /\ ui' = new
  /\ drawn' = << >>
  /\ frameOps' = << >>
  /\ lastCall' = [name |-> name, app |-> app]
  /\ shown' = ShownAfter(new, FALSE)
  /\ UNCHANGED <<TIME_PER_APP, histVars, audioVars, liveVars>>

NavNext == Request("nextApp", 0, nextApp(Fresh(ui)))
NavPrevious == Request("previousApp", 0, previousApp(Fresh(ui)))
NavJump(app) == Request("transitionToApp", app, transitionToApp(Fresh(ui), app))
NavSwitch(app) == Request("switchToApp", app, switchToApp(Fresh(ui), app))

NavUpdate ==
  \E elapsed \in ElapsedChoices :
     /\ TicksBounded
     /\ UpdateUi(elapsed)
     /\ lastCall' = [name |-> "update", app |-> 0]
     /\ UNCHANGED <<histVars, audioVars, liveVars>>

NextNav ==
  \/ NavUpdate
  \/ NavNext
  \/ NavPrevious
  \/ \E app \in 0..MaxAppArg : NavJump(app)
  \/ \E app \in 0..MaxAppArg : NavSwitch(app)

(***************************************************************************)
(* The scheduler driven by update() alone, with the pacing and rotation    *)
(* history recorded.                                                       *)
(***************************************************************************)
\* Lateness 400 ms at a 33 ms interval is an elapsed time of 433 ms, lateness
\* 167 ms an elapsed time of 200 ms.
PacingElapsed == {16, 33, 66, 200, 433}

\* Auto-rotation is on and at least two pages are enabled.
RotationExpected(u) == u.setAutoTransition /\ EnabledCount(u.apps) >= 2

TickCall ==
  \E elapsed \in PacingElapsed :
     LET appStart == ui.state.lastUpdate + elapsed
         paced == updatePace(Fresh(ui), appStart)
         new == update(Fresh(ui), appStart, TIME_PER_APP)
     IN /\ TicksBounded
        /\ UpdateUi(elapsed)
        /\ UNCHANGED <<nTicks, lastCall, audioVars, liveVars>>
        /\ IF Fired(elapsed)
           THEN /\ late' = 0 - TimeBudget(ui, appStart)
                /\ caughtUp' = paced.state.ticksSinceLastStateSwitch
                                 - ui.state.ticksSinceLastStateSwitch
                /\ firstUpdate' = (ui.state.lastUpdate = 0)
                /\ quiet' = IF RotationExpected(new)
                               /\ new.state.currentApp = ui.state.currentApp
                            THEN quiet + 1
                            ELSE 0
           ELSE UNCHANGED <<late, caughtUp, firstUpdate, quiet>>

NextTicks == TickCall


(***************************************************************************)
(* The rotation scenario: registry [time, date], both enabled with no      *)
(* custom duration, TIME_PER_APP = 5000, TIME_PER_TRANSITION = 500,        *)
(* MATRIX_FPS = 30, every frame on time.                                   *)
(***************************************************************************)
ScenarioRegistry == << AppData(TRUE, 0), AppData(TRUE, 0) >>
ScenarioSettings == [fps |-> 30, appTime |-> 5000, transition |-> 500, auto |-> TRUE]
\* An on-time frame: update() is called as soon as the interval has passed.
OnTime == 33

InitSchedulerScenario ==
  /\ \E g \in Garbage : ui = ConfiguredUi(g, ScenarioRegistry, ScenarioSettings)
  /\ TIME_PER_APP = ScenarioSettings.appTime
  /\ InitHist

ScenarioTick ==
  /\ nTicks < MaxScenarioTicks
  /\ UpdateUi(OnTime)
  /\ nTicks' = nTicks + 1
  /\ UNCHANGED <<quiet, late, caughtUp, firstUpdate, lastCall, audioVars, liveVars>>

NextScenario == ScenarioTick


(***************************************************************************)
(* PeripheryManager_: the audio task publishes the band array under        *)
(* _audioMutex and the render thread polls it with getSpectrumData.        *)
(* memcpy and memset are followed byte by byte.                            *)
(***************************************************************************)
\* FFT_NUM_BANDS, scaled down.
NumBands == 2
\* Byte values a band takes.
BandValues == {0, 200}
\* Values the caller's uninitialised local buffer is taken to hold.
GarbageFill == {0, 7}
\* Size of the caller's buffer: numBands may exceed FFT_NUM_BANDS.
OutLen == NumBands + 1
Bands == [1..NumBands -> BandValues]
Filled(n, v) == [k \in 1..n |-> v]

\* xSemaphoreTake timeouts, in ticks.
ProducerWait == 10
ReadWait == 0

\* xSemaphoreTake takes the mutex at once without the mutual exclusion.
TakeSucceeds_always(holder) == TRUE

\* xSemaphoreTake returns pdTRUE at once when the mutex is free.
TakeSucceeds(holder) == holder = "free"

\* getSpectrumData with a take that blocks as the worker's does.
TakeOutcomes_blocking(holder, wait) ==
  IF TakeSucceeds(holder) THEN {"taken"} ELSE {"blocked", "timeout"}

\* xSemaphoreTake(mutex, wait): the mutex is taken, the wait ran out, or the
\* caller is still blocked.
TakeOutcomes(holder, wait) ==
  IF TakeSucceeds(holder) THEN {"taken"}
  ELSE IF wait = 0 THEN {"timeout"}
  ELSE {"blocked", "timeout"}

\* getSpectrumData: count = min(numBands, FFT_NUM_BANDS)
CopyCount(numBands) == Min(numBands, NumBands)

IdleConsumer ==
  [pc |-> "idle", j |-> 0, numBands |-> 0, success |-> FALSE, attempts |-> 0,
   waited |-> FALSE, sawHolder |-> "none", contended |-> FALSE]

\* SpectrumApp: int h = map(val, 0, 255, 0, 8), the height of a band's bar.
BarHeight(val) == (val * PageHeight) \div 255

\* SpectrumApp: the bar heights drawn by column after the poll `c` has
\* returned with the local array holding `out`: the bars are drawn inside
\* if (getSpectrumData(bands, width)), so a failed poll leaves the cleared
\* matrix as it is.
SpectrumApp(c, out) ==
  [k \in 1..OutLen |->
     IF c.success /\ k <= c.numBands THEN BarHeight(out[k]) ELSE 0]

NoRead ==
  [outAtCall |-> Filled(OutLen, 0), pubBefore |-> Filled(NumBands, 0),
   pubAfter |-> Filled(NumBands, 0), lastGood |-> Filled(OutLen, 0)]

\* The band buffer before initMic has run: statics are zero, no task.
AudioOff ==
  /\ audioMutex = "absent"
  /\ sharedBands = Filled(NumBands, 0)
  /\ tempBands = Filled(NumBands, 0)
  /\ producer = [pc |-> "none", i |-> 0]
  /\ consumer = IdleConsumer
  /\ outputBands = Filled(OutLen, 0)
  /\ complete = Filled(NumBands, 0)
  /\ readHist = NoRead

\* After initMic: the mutex and the task exist; or malloc failed and neither
\* exists; or the mutex could not be created and the task runs without it.
InitAudio ==
  /\ \E m \in {"free", "absent"}, task \in BOOLEAN :
        /\ (m = "free" => task)
        /\ audioMutex = m
        /\ producer = [pc |-> IF task THEN "sample" ELSE "none", i |-> 0]
  /\ sharedBands = Filled(NumBands, 0)
  /\ tempBands = Filled(NumBands, 0)
  /\ consumer = IdleConsumer
  /\ outputBands \in {Filled(OutLen, g) : g \in GarbageFill}
  /\ complete = Filled(NumBands, 0)
  /\ readHist = NoRead

\* processAudio: i2s_read fails or is short (return), or the bands of the
\* block are computed into tempBands.
ProducerSample ==
  /\ producer.pc = "sample"
  /\ \/ /\ producer' = [producer EXCEPT !.pc = "delay"]
        /\ UNCHANGED tempBands
     \/ /\ \E b \in Bands : tempBands' = b
        /\ producer' = [producer EXCEPT !.pc = "take"]
  /\ UNCHANGED <<audioMutex, sharedBands, consumer, outputBands, complete, readHist>>

\* processAudio with the copy made although the take timed out.
ProducerMissed_copies(p) == [pc |-> "copy", i |-> 1]

\* processAudio: the take timed out; the copy is skipped and the cycle ends.
ProducerMissed(p) == [p EXCEPT !.pc = "delay"]

\* processAudio: xSemaphoreTake(_audioMutex, 10 / portTICK_PERIOD_MS)
ProducerTake ==
  /\ producer.pc = "take"
  /\ IF audioMutex = "absent"
     THEN /\ producer' = [producer EXCEPT !.pc = "crashed"]
          /\ UNCHANGED <<audioMutex, consumer>>
     ELSE \E o \in TakeOutcomes(audioMutex, ProducerWait) :
            /\ consumer' = [consumer EXCEPT !.contended =
                               @ \/ (o # "taken" /\ audioMutex = "consumer")]
            /\ CASE o = "taken" ->
                      /\ audioMutex' = "producer"
                      /\ producer' = [pc |-> "copy", i |-> 1]
                 [] o = "timeout" ->
                      /\ producer' = ProducerMissed(producer)
                      /\ UNCHANGED audioMutex
                 [] OTHER -> UNCHANGED <<audioMutex, producer>>
  /\ UNCHANGED <<sharedBands, tempBands, outputBands, complete, readHist>>

\* processAudio: memcpy(_sharedBands, tempBands, FFT_NUM_BANDS), one byte.
ProducerCopy ==
  /\ producer.pc = "copy"
  /\ sharedBands' = [sharedBands EXCEPT ![producer.i] = tempBands[producer.i]]
  /\ producer' = IF producer.i = NumBands
                 THEN [pc |-> "give", i |-> 0]
                 ELSE [producer EXCEPT !.i = @ + 1]
  /\ UNCHANGED <<audioMutex, tempBands, consumer, outputBands, complete, readHist>>

\* processAudio: xSemaphoreGive(_audioMutex)
ProducerGive ==
  /\ producer.pc = "give"
  /\ audioMutex' = "free"
  /\ complete' = sharedBands
  /\ producer' = [producer EXCEPT !.pc = "delay"]
  /\ UNCHANGED <<sharedBands, tempBands, consumer, outputBands, readHist>>

\* audioTask: vTaskDelay(1), then the next processAudio
ProducerDelay ==
  /\ producer.pc = "delay"
  /\ producer' = [producer EXCEPT !.pc = "sample"]
  /\ UNCHANGED <<audioMutex, sharedBands, tempBands, consumer, outputBands,
                 complete, readHist>>

\* SpectrumApp: bands[32] is a local array; getSpectrumData(bands, width).
ReadCall ==
  /\ consumer.pc \in {"idle", "ret"}
  /\ \E n \in 1..OutLen, g \in GarbageFill :
        /\ consumer' = [IdleConsumer EXCEPT !.pc = "check", !.numBands = n]
        /\ outputBands' = Filled(OutLen, g)
        /\ readHist' = [readHist EXCEPT !.outAtCall = Filled(OutLen, g),
                                        !.pubBefore = complete,
                                        !.pubAfter = complete]
  /\ UNCHANGED <<audioMutex, sharedBands, tempBands, producer, complete>>

\* getSpectrumData: if (!_audioMutex) return false;
ReadCheck ==
  /\ consumer.pc = "check"
  /\ consumer' = [consumer EXCEPT !.pc = IF audioMutex = "absent" THEN "ret" ELSE "take"]
  /\ UNCHANGED <<audioMutex, sharedBands, tempBands, producer, outputBands,
                 complete, readHist>>

\* getSpectrumData: xSemaphoreTake(_audioMutex, 0)
ReadTake ==
  /\ consumer.pc = "take"
  /\ \E o \in TakeOutcomes(audioMutex, ReadWait) :
       LET tried == [consumer EXCEPT !.attempts = Min(@ + 1, 2),
                                     !.sawHolder = audioMutex]
       IN CASE o = "taken" ->
                 /\ audioMutex' = "consumer"
                 /\ consumer' = [tried EXCEPT !.pc = "copy", !.j = 1]
                 /\ readHist' = [readHist EXCEPT !.pubBefore = complete]
            [] o = "timeout" ->
                 /\ consumer' = [tried EXCEPT !.pc = "ret"]
                 /\ UNCHANGED <<audioMutex, readHist>>
            [] OTHER ->
                 /\ consumer' = [tried EXCEPT !.waited = TRUE]
                 /\ UNCHANGED <<audioMutex, readHist>>
  /\ UNCHANGED <<sharedBands, tempBands, producer, outputBands, complete>>

\* getSpectrumData: memcpy(outputBands, _sharedBands, count), one byte.
ReadCopy ==
  /\ consumer.pc = "copy"
  /\ outputBands' = [outputBands EXCEPT ![consumer.j] = sharedBands[consumer.j]]
  /\ consumer' =
       IF consumer.j < CopyCount(consumer.numBands)
       THEN [consumer EXCEPT !.j = @ + 1]
       ELSE IF consumer.numBands > CopyCount(consumer.numBands)
            THEN [consumer EXCEPT !.pc = "fill", !.j = @ + 1]
            ELSE [consumer EXCEPT !.pc = "give"]
  /\ UNCHANGED <<audioMutex, sharedBands, tempBands, producer, complete, readHist>>

\* getSpectrumData: memset(outputBands + count, 0, numBands - count), one byte.
ReadFill ==
  /\ consumer.pc = "fill"
  /\ outputBands' = [outputBands EXCEPT ![consumer.j] = 0]
  /\ consumer' = IF consumer.j < consumer.numBands
                 THEN [consumer EXCEPT !.j = @ + 1]
                 ELSE [consumer EXCEPT !.pc = "give"]
  /\ UNCHANGED <<audioMutex, sharedBands, tempBands, producer, complete, readHist>>

\* getSpectrumData returning after the copy without xSemaphoreGive.
ReadGive_keepsLock ==
  /\ consumer.pc = "give"
  /\ consumer' = [consumer EXCEPT !.pc = "ret", !.success = TRUE]
  /\ readHist' = [readHist EXCEPT !.pubAfter = complete,
                                  !.lastGood = SpectrumApp(consumer', outputBands)]
  /\ UNCHANGED <<audioMutex, sharedBands, tempBands, producer, outputBands, complete>>

\* getSpectrumData: xSemaphoreGive(_audioMutex); success = true; return.
ReadGive ==
  /\ consumer.pc = "give"
  /\ audioMutex' = "free"
  /\ consumer' = [consumer EXCEPT !.pc = "ret", !.success = TRUE]
  /\ readHist' = [readHist EXCEPT !.pubAfter = complete,
                                  !.lastGood = SpectrumApp(consumer', outputBands)]
  /\ UNCHANGED <<sharedBands, tempBands, producer, outputBands, complete>>

\* The steps of the audio task, and of the render thread in the spectrum
\* page.
ProducerStep ==
  ProducerSample \/ ProducerTake \/ ProducerCopy \/ ProducerGive \/ ProducerDelay
ConsumerStep ==
  ReadCall \/ ReadCheck \/ ReadTake \/ ReadCopy \/ ReadFill \/ ReadGive

NextAudio ==
  \/ ProducerSample /\ UNCHANGED <<uiVars, liveVars>>
  \/ ProducerTake /\ UNCHANGED <<uiVars, liveVars>>
  \/ ProducerCopy /\ UNCHANGED <<uiVars, liveVars>>
  \/ ProducerGive /\ UNCHANGED <<uiVars, liveVars>>
  \/ ProducerDelay /\ UNCHANGED <<uiVars, liveVars>>
  \/ ReadCall /\ UNCHANGED <<uiVars, liveVars>>
  \/ ReadCheck /\ UNCHANGED <<uiVars, liveVars>>
  \/ ReadTake /\ UNCHANGED <<uiVars, liveVars>>
  \/ ReadCopy /\ UNCHANGED <<uiVars, liveVars>>
  \/ ReadFill /\ UNCHANGED <<uiVars, liveVars>>
  \/ ReadGive /\ UNCHANGED <<uiVars, liveVars>>

(***************************************************************************)
(* processAudio: the mapping of the FFT magnitudes to FFT_NUM_BANDS bands. *)
(* The bin edges are (int)(2.0 * pow(128.0, i / 32)); the model computes   *)
(* the same integer exactly, as the largest v with                         *)
(* v^32 <= 2^32 * 128^i, on naturals held as digit sequences.              *)
(***************************************************************************)
FFT_SAMPLES == 1024
FFT_AMPLITUDE == 1000
FFT_NOISE == 500
FFT_NUM_BANDS == 32

\* Naturals as BigLen digits of base BigBase, least significant first.
BigBase == 32768
BigLen == 20
BigOne == [k \in 1..BigLen |-> IF k = 1 THEN 1 ELSE 0]

RECURSIVE BigMulFrom(_, _, _, _)
BigMulFrom(a, v, k, carry) ==
  IF k > BigLen THEN << >>
  ELSE LET t == a[k] * v + carry
       IN IF t >= 0 THEN <<t % BigBase>> \o BigMulFrom(a, v, k + 1, t \div BigBase)
          ELSE << >>

\* a * v for a small natural v.
BigMul(a, v) == BigMulFrom(a, v, 1, 0)

RECURSIVE BigPow(_, _)
BigPow(v, n) ==
  IF n = 0 THEN BigOne
  ELSE LET p == BigPow(v, n - 1)
       IN IF p[1] >= 0 THEN BigMul(p, v) ELSE p

RECURSIVE BigLeFrom(_, _, _)
BigLeFrom(a, b, k) ==
  IF k = 0 THEN TRUE
  ELSE IF a[k] # b[k] THEN a[k] < b[k]
  ELSE BigLeFrom(a, b, k - 1)

BigLe(a, b) == BigLeFrom(a, b, BigLen)

\* pow's base: (FFT_SAMPLES / 4.0) / 2.0
BinBase == (FFT_SAMPLES \div 4) \div 2

\* v^FFT_NUM_BANDS for every v an edge can be, and one more.
BinPowers == [v \in 1..(2 * BinBase + 1) |-> BigPow(v, FFT_NUM_BANDS)]

\* (2.0 * pow(BinBase, i / FFT_NUM_BANDS))^FFT_NUM_BANDS
\*    = 2^FFT_NUM_BANDS * BinBase^i
EdgePower(i) ==
  LET RECURSIVE Times(_, _, _)
      Times(a, v, n) ==
        IF n = 0 THEN a
        ELSE LET p == BigMul(a, v)
             IN IF p[1] >= 0 THEN Times(p, v, n - 1) ELSE p
  IN Times(BigPow(2, FFT_NUM_BANDS), BinBase, i)

EdgePowers == [i \in 0..FFT_NUM_BANDS |-> EdgePower(i)]

\* (int)(2.0 * pow((FFT_SAMPLES / 4.0) / 2.0, (double)i / FFT_NUM_BANDS)),
\* for i = 0..FFT_NUM_BANDS.
BinEdges ==
  [i \in 0..FFT_NUM_BANDS |->
     CHOOSE v \in 1..(2 * BinBase) :
        /\ BigLe(BinPowers[v], EdgePowers[i])
        /\ ~BigLe(BinPowers[v + 1], EdgePowers[i])]

\* processAudio: startBin of band i.
StartBin(i) == BinEdges[i]

\* processAudio: endBin of band i, after the two corrections.
EndBin(i) ==
  LET endBin == BinEdges[i + 1]
      e1 == IF endBin <= StartBin(i) THEN StartBin(i) + 1 ELSE endBin
  IN IF e1 > FFT_SAMPLES \div 2 THEN FFT_SAMPLES \div 2 ELSE e1

\* The magnitudes of a block, vReal[j] after ComplexToMagnitude: hi below
\* bin `cut`, lo from it on.
Magnitude(sp, j) == IF j < sp.cut THEN sp.hi ELSE sp.lo

RECURSIVE BinSum(_, _, _)
BinSum(sp, j, endBin) ==
  IF j >= endBin THEN 0 ELSE Magnitude(sp, j) + BinSum(sp, j + 1, endBin)

\* processAudio: the value of band i: the mean of the bins, the noise gate,
\* the scaling by 255 / FFT_AMPLITUDE, the clamp at 255 and the cast to
\* uint8_t.  With sum = S / count the scaled value is
\* (S - FFT_NOISE * count) * 255 / (FFT_AMPLITUDE * count).
BandValue(sp, i) ==
  LET count == EndBin(i) - StartBin(i)
      S == BinSum(sp, StartBin(i), EndBin(i))
  IN IF count <= 0 THEN 0
     ELSE IF S < FFT_NOISE * count THEN 0
     ELSE IF (S - FFT_NOISE * count) * 255 > 255 * FFT_AMPLITUDE * count THEN 255
     ELSE ((S - FFT_NOISE * count) * 255) \div (FFT_AMPLITUDE * count)

\* Magnitude levels around the noise floor and the full scale.
Levels == {0, 499, 500, 700, 1500, 1501}
\* Blocks: flat spectra, and spectra that step down at bin 8.
Spectra ==
  { [cut |-> 0, lo |-> m, hi |-> m] : m \in Levels }
    \cup { [cut |-> 8, lo |-> l, hi |-> h] : l \in {0, 499}, h \in {700, 1501} }

\* processAudio: one iteration of the band loop.
BandCompute ==
  /\ producer.pc = "band"
  /\ producer.i < FFT_NUM_BANDS
  /\ tempBands' = [tempBands EXCEPT ![producer.i + 1] =
                                        BandValue(producer.vReal, producer.i)]
  /\ producer' = [producer EXCEPT !.i = @ + 1]
  /\ UNCHANGED <<audioMutex, sharedBands, consumer, outputBands, complete, readHist>>

\* The band loop has ended; the next processAudio call has a new block and
\* a new local tempBands.
BandsDone ==
  /\ producer.pc = "band"
  /\ producer.i = FFT_NUM_BANDS
  /\ \E sp \in Spectra, g \in GarbageFill :
        /\ producer' = [pc |-> "band", i |-> 0, vReal |-> sp]
        /\ tempBands' = Filled(FFT_NUM_BANDS, g)
  /\ UNCHANGED <<audioMutex, sharedBands, consumer, outputBands, complete, readHist>>

NextBands ==
  \/ BandCompute /\ UNCHANGED <<uiVars, liveVars>>
  \/ BandsDone /\ UNCHANGED <<uiVars, liveVars>>

(***************************************************************************)
(* Liveview_: the two-phase capture of the LED buffer.  Liveview.h         *)
(* declares tick(), flush() and _crc32(); their bodies follow the          *)
(* specification of the sample phase and the flush phase.  The buffer      *)
(* layout is that of fillBuffer in Liveview.cpp.                           *)
(***************************************************************************)
\* MATRIX_WIDTH and MATRIX_HEIGHT, scaled down.
Width == 2
Height == 2
NumLeds == Width * Height

\* CRGB values, as <<r, g, b>>.
Black == <<0, 0, 0>>
Lit == <<255, 0, 64>>

\* Contents of leds[]: all black, or the first or the last LED lit.
Frames ==
  {[p \in 0..(NumLeds - 1) |-> Black]}
    \cup {[p \in 0..(NumLeds - 1) |-> IF p = q THEN Lit ELSE Black] :
            q \in {0, NumLeds - 1}}

\* liveviewPixelMap -> matrix->XY(x, y) for a single panel laid out in rows,
\* zigzag (layout 2): odd rows run right to left.
XY(x, y) == IF y % 2 = 0 THEN y * Width + x ELSE y * Width + (Width - 1 - x)

\* _PREFIX: "LV:"
PREFIX == <<76, 86, 58>>

\* fillBuffer: the r, g, b bytes of the pixels from slot k on, row by row.
RECURSIVE PixelBytes(_, _)
PixelBytes(l, k) ==
  IF k >= NumLeds THEN << >>
  ELSE l[XY(k % Width, k \div Width)] \o PixelBytes(l, k + 1)

\* fillBuffer with the LEDs copied in the order of their physical index.
RECURSIVE PhysicalBytes(_, _)
PhysicalBytes(l, k) ==
  IF k >= NumLeds THEN << >> ELSE l[k] \o PhysicalBytes(l, k + 1)
FillBuffer_physicalOrder(l) == PREFIX \o PhysicalBytes(l, 0)

\* fillBuffer: prefix, then every pixel.
FillBuffer(l) == PREFIX \o PixelBytes(l, 0)

\* The pixel byte region of the buffer: everything after the prefix.
PixelRegion(buf) == SubSeq(buf, Len(PREFIX) + 1, Len(buf))

\* CRC-32 (reflected, polynomial 0xEDB88320) on 32-bit words held as two
\* 16-bit halves.
RECURSIVE XorBits(_, _, _)
XorBits(a, b, n) ==
  IF n = 0 THEN 0
  ELSE (((a % 2) + (b % 2)) % 2) + 2 * XorBits(a \div 2, b \div 2, n - 1)
Xor16(a, b) == XorBits(a, b, 16)
Word(hi, lo) == [hi |-> hi, lo |-> lo]
\* 0xEDB88320
Poly == Word(60856, 33568)
ShiftRight(c) == Word(c.hi \div 2, (c.lo \div 2) + (c.hi % 2) * 32768)
CrcBit(c) ==
  IF c.lo % 2 = 1
  THEN Word(Xor16(ShiftRight(c).hi, Poly.hi), Xor16(ShiftRight(c).lo, Poly.lo))
  ELSE ShiftRight(c)
CrcByte(c, b) ==
  CrcBit(CrcBit(CrcBit(CrcBit(CrcBit(CrcBit(CrcBit(CrcBit(
    Word(c.hi, Xor16(c.lo, b))))))))))
RECURSIVE CrcBytes(_, _, _)
CrcBytes(c, data, k) ==
  IF k > Len(data) THEN c
  ELSE LET next == CrcByte(c, data[k])
       IN IF next.lo >= 0 THEN CrcBytes(next, data, k + 1) ELSE next
crc32(data) ==
  LET c == CrcBytes(Word(65535, 65535), data, 1)
  IN Word(65535 - c.hi, 65535 - c.lo)

\* _crc32 over the pixel region, tabulated for the buffers that occur.
PixelChecksums ==
  [b \in {FillBuffer(f) : f \in Frames} |-> crc32(PixelRegion(b))]
ChecksumOf(b) == PixelChecksums[b]

\* _interval as set by DisplayManager_::setup
LiveviewInterval == 250
\* millis() - _lastSample at a call of tick()
SampleElapsed == {100, 250}

\* Liveview_ after construction and setLeds / setInterval.
NewLiveview ==
  [interval |-> LiveviewInterval, callback |-> FALSE,
   pendingChecksum |-> Word(0, 0), sentChecksum |-> Word(0, 0), dirty |-> FALSE,
   buf |-> << >>, bufLen |-> 0]

\* Sample phase: the buffer is marked dirty whatever the checksum.
MarkDirty_always(checksum, sent) == TRUE

\* Sample phase: dirty if the checksum differs from the last published one.
MarkDirty(checksum, sent) == checksum # sent

\* Sample phase: the checksum compared against is the one computed last.
DirtyReference_lastComputed(l) == l.pendingChecksum

\* Sample phase: the checksum compared against is the one published last.
DirtyReference(l) == l.sentChecksum

\* The sample is due.
SampleDue(l, elapsed) == l.interval > 0 /\ elapsed >= l.interval

\* Liveview_::tick
tickLiveview(l, frame, elapsed) ==
  IF SampleDue(l, elapsed)
  THEN LET b == FillBuffer(frame)
           c == ChecksumOf(b)
       IN [l EXCEPT !.buf = b, !.bufLen = Len(b), !.pendingChecksum = c,
                    !.dirty = MarkDirty(c, DirtyReference(l))]
  ELSE l

\* Flush phase: the callback is invoked whenever one is registered.
Publishes_whenever(l) == l.callback

\* Flush phase: the callback is invoked.
Publishes(l) == l.dirty /\ l.callback

\* Liveview_::flush: the calls of _callback(_buf, _bufLen) it makes.
flushCalls(l) ==
  IF Publishes(l) THEN <<[data |-> l.buf, length |-> l.bufLen]>> ELSE << >>

\* Liveview_::tick: the calls of _callback it makes.
tickCalls(l) == << >>

\* ServerManager_::sendLiveviewData: the frames broadcast.
sendLiveviewData(data, clients) == IF clients THEN <<data>> ELSE << >>

\* The callback main.cpp registers, run for every call in calls.
RECURSIVE LiveviewCallback(_, _, _)
LiveviewCallback(calls, isConnected, clients) ==
  IF calls = << >> THEN << >>
  ELSE (IF isConnected THEN sendLiveviewData(Head(calls).data, clients)
        ELSE << >>)
         \o LiveviewCallback(Tail(calls), isConnected, clients)

\* Flush phase after the callback: the dirty flag is left set.
AfterPublish_keepsDirty(l) == [l EXCEPT !.sentChecksum = l.pendingChecksum]

\* Flush phase after the callback: record the checksum, clear the flag.
AfterPublish(l) ==
  [l EXCEPT !.sentChecksum = l.pendingChecksum, !.dirty = FALSE]

\* Liveview_::flush
flushLiveview(l) == IF Publishes(l) THEN AfterPublish(l) ELSE l

NoChecksum == << >>

NoLvHist ==
  [pubsSinceDirty |-> 0, lastPub |-> NoChecksum, prevPub |-> NoChecksum,
   samplesSinceRender |-> 0, bufFirst |-> << >>, crcFirst |-> NoChecksum,
   pubsSinceFirst |-> 0, flushesSinceDirty |-> 0,
   calls |-> << >>, sends |-> << >>, rendersSinceSample |-> 0,
   dirtyBefore |-> FALSE]

\* DisplayManager_::tick has drawn a frame into leds[].
Rendered(frame) ==
  /\ leds' = frame
  /\ lvHist' = [lvHist EXCEPT !.samplesSinceRender = 0, !.pubsSinceFirst = 0,
                              !.calls = << >>, !.sends = << >>,
                              !.rendersSinceSample = Min(@ + 1, 2)]

\* Liveview.tick()
Sampled(elapsed) ==
  LET new == tickLiveview(lv, leds, elapsed)
      first == lvHist.samplesSinceRender = 0
  IN /\ lv' = new
     /\ lvHist' =
          IF SampleDue(lv, elapsed)
          THEN [lvHist EXCEPT
                  !.calls = tickCalls(lv), !.sends = << >>,
                  !.rendersSinceSample = 0,
                  !.dirtyBefore = lv.dirty,
                  !.samplesSinceRender = Min(@ + 1, 2),
                  !.bufFirst = IF first THEN new.buf ELSE @,
                  !.crcFirst = IF first THEN new.pendingChecksum ELSE @,
                  !.pubsSinceFirst = IF first THEN 0 ELSE @,
                  !.pubsSinceDirty = IF new.dirty THEN 0 ELSE @,
                  !.flushesSinceDirty = IF new.dirty THEN 0 ELSE @]
          ELSE [lvHist EXCEPT !.calls = tickCalls(lv), !.sends = << >>]

\* Liveview.flush()
Flushed ==
  /\ lv' = flushLiveview(lv)
  /\ lvHist' =
       IF Publishes(lv)
       THEN [lvHist EXCEPT !.calls = flushCalls(lv),
                           !.sends = LiveviewCallback(flushCalls(lv), connected,
                                                      subscribers),
                           !.pubsSinceDirty = Min(@ + 1, 2),
                           !.pubsSinceFirst = Min(@ + 1, 2),
                           !.flushesSinceDirty = Min(@ + 1, 2),
                           !.prevPub = lvHist.lastPub,
                           !.lastPub = lv.pendingChecksum]
       ELSE [lvHist EXCEPT !.calls = flushCalls(lv), !.sends = << >>,
                           !.flushesSinceDirty = Min(@ + 1, 2)]

(***************************************************************************)
(* Liveview_ driven by any sequence of render, sample and flush calls.     *)
(***************************************************************************)
LvRender ==
  /\ \E frame \in Frames : Rendered(frame)
  /\ UNCHANGED <<lv, connected, subscribers, loopPc, loopCalls>>

LvTick ==
  /\ \E elapsed \in SampleElapsed : Sampled(elapsed)
  /\ UNCHANGED <<leds, connected, subscribers, loopPc, loopCalls>>

LvFlush ==
  /\ Flushed
  /\ UNCHANGED <<leds, connected, subscribers, loopPc, loopCalls>>

\* main.cpp setup: Liveview.setCallback(...)
LvSetCallback ==
  /\ lv' = [lv EXCEPT !.callback = TRUE]
  /\ UNCHANGED <<leds, connected, subscribers, loopPc, loopCalls, lvHist>>

(***************************************************************************)
(* main.cpp loop(): one action per call of an iteration.                   *)
(***************************************************************************)
LoopOrder == <<"config", "render", "sample", "sensor", "server", "flush">>

\* loop() with the sample taken before the frame is rendered.
AfterCall_sampleFirst(call) ==
  CASE call = "config" -> "sample"
    [] call = "sample" -> "render"
    [] call = "render" -> "sensor"
    [] call = "sensor" -> "server"
    [] call = "server" -> "flush"
    [] OTHER -> "config"

\* loop(): the statement that follows each call.
AfterCall(call) ==
  CASE call = "config" -> "render"
    [] call = "render" -> "sample"
    [] call = "sample" -> "sensor"
    [] call = "sensor" -> "server"
    [] call = "server" -> "flush"
    [] OTHER -> "config"

\* WiFi connects or drops; the event comes from another task.
WifiEvent ==
  /\ connected' = ~connected
  /\ UNCHANGED <<leds, lv, subscribers, loopPc, loopCalls, lvHist>>

\* A viewer opens or closes the WebSocket, or EnableLiveview is switched.
ClientEvent ==
  /\ subscribers' = ~subscribers
  /\ UNCHANGED <<leds, lv, connected, loopPc, loopCalls, lvHist>>

\* WebConfigManager.tick()
LoopConfig ==
  /\ loopPc = "config"
  /\ loopPc' = AfterCall("config")
  /\ loopCalls' = <<"config">>
  /\ UNCHANGED <<leds, lv, connected, subscribers, lvHist>>

\* DisplayManager.tick(): the frame is drawn when update() fires a tick.
LoopRender ==
  /\ loopPc = "render"
  /\ loopPc' = AfterCall("render")
  /\ loopCalls' = Append(loopCalls, "render")
  /\ \E elapsed \in ElapsedChoices :
        /\ UpdateUi(elapsed)
        /\ IF Fired(elapsed)
           THEN \E frame \in Frames : Rendered(frame)
           ELSE UNCHANGED <<leds, lvHist>>
  /\ UNCHANGED <<lv, connected, subscribers, histVars, lastCall>>

\* Liveview.tick()
LoopSample ==
  /\ loopPc = "sample"
  /\ loopPc' = AfterCall("sample")
  /\ loopCalls' = Append(loopCalls, "sample")
  /\ \E elapsed \in SampleElapsed : Sampled(elapsed)
  /\ UNCHANGED <<leds, connected, subscribers>>

\* PeripheryManager.tick()
LoopSensor ==
  /\ loopPc = "sensor"
  /\ loopPc' = AfterCall("sensor")
  /\ loopCalls' = Append(loopCalls, "sensor")
  /\ UNCHANGED <<leds, lv, connected, subscribers, lvHist>>

\* if (WebConfigManager.isConnected()) ServerManager.tick();
LoopServer ==
  /\ loopPc = "server"
  /\ loopPc' = AfterCall("server")
  /\ loopCalls' = IF connected THEN Append(loopCalls, "server") ELSE loopCalls
  /\ UNCHANGED <<leds, lv, connected, subscribers, lvHist>>

\* if (WebConfigManager.isConnected()) Liveview.flush();
LoopFlush ==
  /\ loopPc = "flush"
  /\ loopPc' = AfterCall("flush")
  /\ IF connected
     THEN /\ loopCalls' = Append(loopCalls, "flush")
          /\ Flushed
     ELSE UNCHANGED <<loopCalls, lv, lvHist>>
  /\ UNCHANGED <<leds, connected, subscribers>>

(***************************************************************************)
(* Specifications.  Each drives one part of the firmware and leaves the    *)
(* others at rest.                                                         *)
(***************************************************************************)
\* The scheduler as main.cpp setup leaves it, two pages, auto-rotation on.
SchedulerReady ==
  /\ ui = ConfiguredUi(-1, ScenarioRegistry,
                       [fps |-> 30, appTime |-> 100, transition |-> 67, auto |-> TRUE])
  /\ TIME_PER_APP = 100
  /\ InitHist

\* Liveview_ and the loop before setup has registered the callback.
LiveOff ==
  /\ leds = [p \in 0..(NumLeds - 1) |-> Black]
  /\ lv = NewLiveview
  /\ connected = FALSE
  /\ subscribers = FALSE
  /\ loopPc = "config"
  /\ loopCalls = << >>
  /\ lvHist = NoLvHist

Init == InitScheduler /\ AudioOff /\ LiveOff
Spec == Init /\ [][Next]_vars

InitNav == InitSchedulerNav /\ AudioOff /\ LiveOff
SpecNav == InitNav /\ [][NextNav]_vars

InitTicks == InitSchedulerOverlays /\ AudioOff /\ LiveOff
SpecTicks == InitTicks /\ [][NextTicks]_vars

InitScenario == InitSchedulerScenario /\ AudioOff /\ LiveOff
SpecScenario == InitScenario /\ [][NextScenario]_vars

InitAudioSpec == SchedulerReady /\ InitAudio /\ LiveOff
SpecAudio == InitAudioSpec /\ [][NextAudio]_vars

\* The same, with both threads scheduled: the audio task (a FreeRTOS task on
\* core 0) and the render thread (loop() on core 1) each keep taking steps.
SpecAudioFair ==
  /\ InitAudioSpec
  /\ [][NextAudio]_vars
  /\ WF_vars(ProducerStep /\ UNCHANGED <<uiVars, liveVars>>)
  /\ WF_vars(ConsumerStep /\ UNCHANGED <<uiVars, liveVars>>)

\* The band loop of processAudio on its own: a block has been read and
\* transformed, the loop is about to compute band 0.
InitBands ==
  /\ audioMutex = "free"
  /\ sharedBands = Filled(NumBands, 0)
  /\ \E sp \in Spectra, g \in GarbageFill :
        /\ producer = [pc |-> "band", i |-> 0, vReal |-> sp]
        /\ tempBands = Filled(FFT_NUM_BANDS, g)
  /\ consumer = IdleConsumer
  /\ outputBands = Filled(OutLen, 0)
  /\ complete = Filled(NumBands, 0)
  /\ readHist = NoRead
InitBandsSpec == SchedulerReady /\ InitBands /\ LiveOff
SpecBands == InitBandsSpec /\ [][NextBands]_vars

InitLiveview == SchedulerReady /\ AudioOff /\ LiveOff
NextLiveview ==
  \/ LvRender /\ UNCHANGED <<uiVars, audioVars>>
  \/ LvTick /\ UNCHANGED <<uiVars, audioVars>>
  \/ LvFlush /\ UNCHANGED <<uiVars, audioVars>>
  \/ LvSetCallback /\ UNCHANGED <<uiVars, audioVars>>
  \/ WifiEvent /\ UNCHANGED <<uiVars, audioVars>>
  \/ ClientEvent /\ UNCHANGED <<uiVars, audioVars>>
SpecLiveview == InitLiveview /\ [][NextLiveview]_vars

\* After setup(): the callback is registered; WiFi is connected or not.
InitLoop ==
  /\ SchedulerReady
  /\ AudioOff
  /\ leds = [p \in 0..(NumLeds - 1) |-> Black]
  /\ lv = [NewLiveview EXCEPT !.callback = TRUE]
  /\ connected \in BOOLEAN
  /\ subscribers \in BOOLEAN
  /\ loopPc = "config"
  /\ loopCalls = << >>
  /\ lvHist = NoLvHist
NextLoop ==
  \/ WifiEvent /\ UNCHANGED <<uiVars, audioVars>>
  \/ ClientEvent /\ UNCHANGED <<uiVars, audioVars>>
  \/ LoopConfig /\ UNCHANGED <<uiVars, audioVars>>
  \/ LoopRender /\ UNCHANGED audioVars
  \/ LoopSample /\ UNCHANGED <<uiVars, audioVars>>
  \/ LoopSensor /\ UNCHANGED <<uiVars, audioVars>>
  \/ LoopServer /\ UNCHANGED <<uiVars, audioVars>>
  \/ LoopFlush /\ UNCHANGED <<uiVars, audioVars>>
SpecLoop == InitLoop /\ [][NextLoop]_vars

\* The same, with loop() running for ever: the call loop() is at is
\* eventually made, and millis() advances, so that again and again a call
\* of Liveview.tick() finds the sampling interval elapsed.
LoopStep ==
  \/ LoopConfig /\ UNCHANGED <<uiVars, audioVars>>
  \/ LoopRender /\ UNCHANGED audioVars
  \/ LoopSample /\ UNCHANGED <<uiVars, audioVars>>
  \/ LoopSensor /\ UNCHANGED <<uiVars, audioVars>>
  \/ LoopServer /\ UNCHANGED <<uiVars, audioVars>>
  \/ LoopFlush /\ UNCHANGED <<uiVars, audioVars>>
LoopSampleDue ==
  /\ LoopSample /\ UNCHANGED <<uiVars, audioVars>>
  /\ lv' = tickLiveview(lv, leds, lv.interval)
SpecLoopFair ==
  /\ InitLoop
  /\ [][NextLoop]_vars
  /\ WF_vars(LoopStep)
  /\ SF_vars(LoopSampleDue)

(***************************************************************************)
(* Properties of the page scheduler.                                       *)
(***************************************************************************)

\* C1: for any run of ticks and navigation requests, the next-page selection
\* (getNextAppNumber) is called exactly once by the step that enters
\* IN_TRANSITION, is not called again and the locked target does not change
\* while the machine stays IN_TRANSITION, and a queued one-shot target is
\* consumed by the call that reads it.
C1_SelectionOncePerTransition ==
  [][ /\ ui'.calls <= 1
      /\ (ui'.calls = 1 => ui'.nextAppNumber = -1)
      /\ (ui.state.appState # IN_TRANSITION /\ ui'.state.appState = IN_TRANSITION
            => ui'.calls = 1)
      /\ (ui.state.appState = IN_TRANSITION /\ ui'.state.appState = IN_TRANSITION
            => /\ ui'.calls = 0
               /\ ui'.state.cachedNextApp = ui.state.cachedNextApp) ]_vars

\* C5: when exactly one page of the registry is enabled, a call of update(),
\* whatever the lateness of the frame and whatever the auto-rotation switch,
\* leaves a scheduler that is FIXED in the FIXED state.
C5_SinglePageStaysFixed ==
  [][ (UpdateCall /\ EnabledCount(ui.apps) = 1 /\ ui.state.appState = FIXED)
         => ui'.state.appState = FIXED ]_vars

\* C5 witness: with one enabled page and auto-rotation on, a tick has just
\* used up the page's tick budget (the counter was reset) and the scheduler
\* is FIXED.
C5_Witness ==
  /\ EnabledCount(ui.apps) = 1
  /\ ui.setAutoTransition
  /\ ui.ticksPerApp > 0
  /\ drawn # << >>
  /\ ui.state.lastUpdate # 0
  /\ ui.state.ticksSinceLastStateSwitch = 0
  /\ ui.state.appState = FIXED

\* C4: with auto-rotation on and at least two enabled pages, ticks alone
\* change the displayed page index at least once within
\* ticksPerApp + ticksPerTransition + 1 ticks: no more than
\* ticksPerApp + ticksPerTransition consecutive ticks leave it unchanged.
C4_PageChangesWithinBudget ==
  RotationExpected(ui) => quiet <= ui.ticksPerApp + ui.ticksPerTransition

\* C6: in the rotation scenario the scheduler is FIXED on index 0 before the
\* 150th tick, is IN_TRANSITION after the 150th tick, and is FIXED on index 1
\* once ticksPerTransition further ticks have run.
C6_RotationScenario ==
  /\ (nTicks < 150 => ui.state.appState = FIXED /\ ui.state.currentApp = 0)
  /\ (nTicks = 150 => ui.state.appState = IN_TRANSITION)
  /\ (nTicks = 150 + ui.ticksPerTransition
        => ui.state.appState = FIXED /\ ui.state.currentApp = 1)

\* C7: when update() fires a tick 400 ms late at an update interval of 33 ms,
\* on a call that is not the first one, the catch-up adds floor(400/33) = 12
\* ticks to the counter before tick() runs, unclamped and without wrapping;
\* tick() then counts the frame itself, 13 in all.
C7_CatchUpTicks ==
  (late = 400 /\ F32Trunc(ui.updateInterval) = 33 /\ ~firstUpdate)
     => caughtUp = 12

\* C7 witness: a frame 400 ms late has fired after an earlier frame and 12
\* ticks were added.
C7_Witness ==
  /\ late = 400
  /\ F32Trunc(ui.updateInterval) = 33
  /\ ~firstUpdate
  /\ caughtUp = 12

\* C7 as stated: the catch-up adds 13 ticks for a lateness of 400 ms at 33 ms.
C7_Original ==
  (late = 400 /\ F32Trunc(ui.updateInterval) = 33 /\ ~firstUpdate)
     => caughtUp = 13

(***************************************************************************)
(* Properties of the band buffer.                                          *)
(***************************************************************************)
SamePrefix(a, b, n) == \A k \in 1..n : a[k] = b[k]

\* C2: the producer's copy into the shared band array and the consumer's copy
\* out of it are never in progress at the same time, and a read that returned
\* true holds, in the bytes it copied, the complete array published before
\* the read took the lock or the complete array published when it released
\* it, never a mix of two arrays.
C2_NoTornRead ==
  /\ ~(producer.pc = "copy" /\ consumer.pc = "copy")
  /\ (consumer.pc = "ret" /\ consumer.success
        => \/ SamePrefix(outputBands, readHist.pubBefore, CopyCount(consumer.numBands))
           \/ SamePrefix(outputBands, readHist.pubAfter, CopyCount(consumer.numBands)))

\* C2 witness: a read of the whole array returned true although the worker
\* tried to take the lock while the read held it, and it returned an array
\* the worker had published.
C2_Witness ==
  /\ consumer.pc = "ret"
  /\ consumer.success
  /\ consumer.contended
  /\ consumer.numBands >= NumBands
  /\ readHist.pubAfter # Filled(NumBands, 0)
  /\ SamePrefix(outputBands, readHist.pubAfter, NumBands)

\* C3: getSpectrumData never waits for the lock and tries to take it at most
\* once; a call that found the lock held by the producer (or no lock at all)
\* returns false with every byte of the caller's buffer as it was at the
\* call; a call that took the lock returns true with the published bands
\* copied out, the rest of the buffer zeroed and the lock released.
C3_ReadNeverWaits ==
  /\ ~consumer.waited
  /\ consumer.attempts <= 1
  /\ (consumer.pc = "ret" =>
        /\ (consumer.sawHolder = "producer" => ~consumer.success)
        /\ (~consumer.success
              => /\ outputBands = readHist.outAtCall
                 /\ consumer.sawHolder \in {"none", "producer"})
        /\ (consumer.success
              => /\ consumer.attempts = 1
                 /\ consumer.sawHolder = "free"
                 /\ audioMutex # "consumer"
                 /\ SamePrefix(outputBands, readHist.pubAfter,
                               CopyCount(consumer.numBands))
                 /\ \A k \in (CopyCount(consumer.numBands) + 1)..consumer.numBands :
                       outputBands[k] = 0))

\* C3 witness: a call made while the producer was copying returned false
\* after one attempt and the caller's buffer still holds what it held.
C3_Witness ==
  /\ consumer.pc = "ret"
  /\ ~consumer.success
  /\ consumer.attempts = 1
  /\ consumer.sawHolder = "producer"
  /\ producer.pc = "copy"
  /\ outputBands = Filled(OutLen, 7)
  /\ outputBands = readHist.outAtCall

(***************************************************************************)
(* Properties of the host loop and of Liveview_.                           *)
(***************************************************************************)
Position(call) == CHOOSE k \in 1..Len(LoopOrder) : LoopOrder[k] = call

C9_PublishedOnce ==
  /\ lvHist.pubsSinceDirty <= 1
  /\ (lvHist.prevPub # NoChecksum => lvHist.lastPub # lvHist.prevPub)

\* C9 witness: after a second publish, flush was called again with no new
\* dirty sample and published nothing.
C9_Witness ==
  /\ lvHist.prevPub # NoChecksum
  /\ lvHist.pubsSinceDirty = 1
  /\ lvHist.flushesSinceDirty = 2
  /\ ~lv.dirty

C11_DirtyAgainstPublished ==
  /\ lv.dirty = (lv.pendingChecksum # lv.sentChecksum)
  /\ (lvHist.calls # << >> => lvHist.lastPub # lvHist.prevPub)

\* C11 witness: a changed frame was sampled and not flushed; a second sample
\* with no render between computed the same checksum and the buffer is
\* still dirty.
C11_Witness ==
  /\ lvHist.samplesSinceRender = 2
  /\ lvHist.dirtyBefore
  /\ lvHist.pubsSinceFirst = 0
  /\ lv.pendingChecksum = lvHist.crcFirst
  /\ lv.dirty

\* C12: a flush with the dirty flag set and a callback registered invokes
\* the callback exactly once, with the sampled buffer and its length, records
\* the sampled checksum as published and clears the flag; a flush with the
\* flag clear invokes nothing and changes nothing; a sample never invokes
\* the callback.
C12_FlushPublishes ==
  [][ /\ (LvFlush /\ lv.dirty /\ lv.callback)
         => /\ lvHist'.calls = <<[data |-> lv.buf, length |-> lv.bufLen]>>
            /\ lv' = [lv EXCEPT !.sentChecksum = lv.pendingChecksum,
                                !.dirty = FALSE]
      /\ (LvFlush /\ ~lv.dirty) => (lvHist'.calls = << >> /\ lv' = lv)
      /\ LvTick => lvHist'.calls = << >> ]_vars

\* C12 witness: a flush has just handed the sampled buffer of a lit frame to
\* the callback; the flag is clear and the checksum is recorded.
C12_Witness ==
  /\ Len(lvHist.calls) = 1
  /\ lvHist.calls[1].data = lv.buf
  /\ lvHist.calls[1].length = Len(PREFIX) + 3 * NumLeds
  /\ lv.buf # FillBuffer([p \in 0..(NumLeds - 1) |-> Black])
  /\ lv.sentChecksum = lv.pendingChecksum
  /\ ~lv.dirty

\* C13: a flush made while no callback is registered or while no viewer is
\* subscribed sends nothing and leaves the dirty flag and the published
\* checksum as they were, and a sample that is due still captures leds[].
C13_FlushNoOpWithoutSubscribers ==
  [][ /\ (LoopFlush /\ connected /\ (~lv.callback \/ ~subscribers))
         => /\ lvHist'.sends = << >>
            /\ lv'.dirty = lv.dirty
            /\ lv'.sentChecksum = lv.sentChecksum
      /\ (LoopSample /\ lvHist'.rendersSinceSample = 0 /\ lvHist' # lvHist)
         => lv'.buf = FillBuffer(leds) ]_vars

\* C14: a frame handed to the callback was sampled after the render that
\* came last: no render lies between its sample and its flush.
C14_PublishedFrameIsLatestRender ==
  lvHist.calls # << >> => lvHist.rendersSinceSample = 0

\* Byte b (0 = r, 1 = g, 2 = b) of pixel slot (x, y) of a sampled buffer.
SlotByte(buf, x, y, b) == buf[Len(PREFIX) + 3 * (y * Width + x) + b + 1]

\* C15: the buffer sampled from leds[] has length 3 + 3 * Width * Height and
\* starts with "LV:"; the slot of pixel (x, y), slots being laid out row by
\* row, holds the r, g, b bytes of the LED at index XY(x, y); when every LED
\* is black every byte after the marker is zero.
C15_BufferLayout ==
  lvHist.samplesSinceRender >= 1
     => /\ lv.bufLen = 3 + 3 * Width * Height
        /\ Len(lv.buf) = lv.bufLen
        /\ SubSeq(lv.buf, 1, 3) = <<76, 86, 58>>
        /\ \A x \in 0..(Width - 1), y \in 0..(Height - 1), b \in 0..2 :
              SlotByte(lv.buf, x, y, b) = leds[XY(x, y)][b + 1]
        /\ ((\A q \in 0..(NumLeds - 1) : leds[q] = Black)
              => \A k \in 4..Len(lv.buf) : lv.buf[k] = 0)

\* C15 witness: a frame whose last LED is lit has been sampled.
C15_Witness ==
  /\ lvHist.samplesSinceRender >= 1
  /\ leds[NumLeds - 1] = Lit
  /\ lv.bufLen = 3 + 3 * NumLeds

(***************************************************************************)
(* Further properties of the page scheduler.                               *)
(***************************************************************************)
\* C16: when the locked next page is out of range of the registry (a
\* shorter registry was installed during the transition) and the current
\* page is still in range, a tick draws only
\* pages that are in range and, if it ends the transition, leaves
\* currentApp at the value it had during the transition.
C16_OutOfRangeFallsBackToCurrent ==
  [][ (/\ UpdateCall
       /\ ui.state.appState = IN_TRANSITION
       /\ ui.state.currentApp < Len(ui.apps)
       /\ ui.state.cachedNextApp >= Len(ui.apps))
         => /\ \A i \in 1..Len(drawn') : drawn'[i].app < Len(ui.apps)
            /\ (ui'.state.appState = FIXED
                  => ui'.state.currentApp = ui.state.currentApp) ]_vars

\* C17: a tick that runs while the registry is empty or holds no enabled
\* page invokes no page callback; its frame is the clear, the overlays, the
\* gamma correction and the show.
C17_NoDrawWithoutEnabledPages ==
  (frameOps # << >> /\ EnabledCount(ui.apps) = 0)
     => /\ drawn = << >>
        /\ frameOps = <<"clear">>
                        \o [i \in 1..ui.overlayCount |-> "overlay"]
                        \o <<"gamma", "show">>

\* C19: under auto-rotation with two or more enabled pages, the tick budget
\* of the page that is current and FIXED is that page's own duration in
\* ticks when it has one, and the global page time in ticks otherwise.
C19_PageKeepsOwnDuration ==
  (/\ ui.setAutoTransition
   /\ EnabledCount(ui.apps) >= 2
   /\ ui.state.appState = FIXED
   /\ ui.state.currentApp < Len(ui.apps))
     => ui.ticksPerApp = DurationTicks(ui, ui.state.currentApp, TIME_PER_APP)

\* C20: with auto-rotation off, a call of update() made in the FIXED state,
\* whatever the lateness of the frame, leaves the state FIXED and currentApp
\* unchanged; nextApp(), previousApp() and an accepted transitionToApp()
\* made in the FIXED state still enter IN_TRANSITION.
C20_NoRotationWhenDisabled ==
  [][ /\ (UpdateCall /\ ~ui.setAutoTransition /\ ui.state.appState = FIXED)
         => /\ ui'.state.appState = FIXED
            /\ ui'.state.currentApp = ui.state.currentApp
      /\ ((NextApp \/ PreviousApp)
            /\ ~ui.setAutoTransition /\ ui.state.appState = FIXED)
         => ui'.state.appState = IN_TRANSITION
      /\ \A app \in 0..MaxAppArg :
           (/\ TransitionToApp(app)
            /\ ~ui.setAutoTransition
            /\ ui.state.appState = FIXED
            /\ app < ui.AppCount
            /\ app # ui.state.currentApp)
              => ui'.state.appState = IN_TRANSITION ]_vars

\* C20 witness: with auto-rotation off and two enabled pages, the handler
\* that ran last was a manual request: it selected the next page and the
\* scheduler is IN_TRANSITION.
C20_Witness ==
  /\ ~ui.setAutoTransition
  /\ EnabledCount(ui.apps) >= 2
  /\ ui.state.appState = IN_TRANSITION
  /\ ui.state.manuelControll
  /\ ui.calls = 1
  /\ frameOps = << >>

(***************************************************************************)
(* Further properties of the band buffer.                                  *)
(***************************************************************************)
\* C18: a worker cycle that ends without publishing, because the block read
\* failed or was short or because the take of the mutex timed out, leaves
\* the published band array as it was and does not touch the consumer or
\* its buffer; the array changes only in the copy made while the worker
\* holds the mutex, and after the delay the worker starts the next cycle.
C18_AbandonedCycleKeepsBands ==
  [][ /\ (sharedBands' # sharedBands
            => producer.pc = "copy" /\ audioMutex = "producer")
      /\ (producer.pc \in {"sample", "take"} /\ producer'.pc = "delay")
            => /\ sharedBands' = sharedBands
               /\ sharedBands = complete
               /\ complete' = complete
               /\ outputBands' = outputBands
               /\ consumer'.pc = consumer.pc
               /\ consumer'.success = consumer.success
      /\ (producer.pc = "delay" /\ producer' # producer)
            => producer'.pc = "sample" ]_vars

\* C18 witness: the worker computed new bands, its take timed out while the
\* consumer held the mutex, and it is at the delay before its next cycle;
\* the published array is still the one published before.
C18_Witness ==
  /\ producer.pc = "delay"
  /\ audioMutex = "consumer"
  /\ consumer.contended
  /\ tempBands # sharedBands
  /\ sharedBands = complete
  /\ complete # Filled(NumBands, 0)

(***************************************************************************)
(* Properties of page selection and navigation.                            *)
(***************************************************************************)
\* The enabled page that follows (dir = 1) or precedes (dir = -1) page cur
\* among the enabled pages of appList taken in index order, with wraparound;
\* 0 when no page is enabled.
NextEnabled(appList, cur, dir) ==
  LET en == {i \in 0..(Len(appList) - 1) : appList[i + 1].enabled}
      after == {i \in en : i > cur}
      before == {i \in en : i < cur}
      least(S) == CHOOSE i \in S : \A j \in S : i <= j
      greatest(S) == CHOOSE i \in S : \A j \in S : i >= j
  IN IF en = {} THEN 0
     ELSE IF dir >= 0
          THEN (IF after # {} THEN least(after) ELSE least(en))
          ELSE (IF before # {} THEN greatest(before) ELSE greatest(en))

\* C21: with no manual target pending, the page locked when a transition
\* starts from FIXED (by next, previous or auto-rotation) is the enabled
\* page that follows or precedes the current page, with wraparound, for
\* every registry and every current page; it is 0 when no page is enabled
\* and is an enabled page otherwise.
C21_NextEnabledPage ==
  [][ (/\ NavNext \/ NavPrevious \/ NavUpdate
       /\ ui.nextAppNumber = -1
       /\ ui.state.appState = FIXED
       /\ ui'.state.appState = IN_TRANSITION)
         => /\ ui'.state.cachedNextApp =
                 NextEnabled(ui.apps, ui.state.currentApp,
                             ui'.state.appTransitionDirection)
            /\ (EnabledCount(ui.apps) > 0
                  => /\ ui'.state.cachedNextApp < Len(ui.apps)
                     /\ ui.apps[ui'.state.cachedNextApp + 1].enabled) ]_vars

\* C22: a tick fired in the IN_TRANSITION state on a non-empty registry
\* either leaves the tick counter below ticksPerTransition and the state
\* IN_TRANSITION, or ends the transition: the state becomes FIXED,
\* currentApp becomes the locked target, the lock is cleared, the counter
\* is reset and ticksPerApp becomes the new page's own duration in ticks
\* when it has one, the global page time in ticks otherwise.
C22_TransitionEnds ==
  [][ (/\ UpdateCall
       /\ ui.state.appState = IN_TRANSITION
       /\ ui.AppCount > 0
       /\ frameOps' # << >>)
         => IF ui'.state.appState = FIXED
            THEN /\ ui'.state.currentApp = ui.state.cachedNextApp
                 /\ ui'.state.cachedNextApp = -1
                 /\ ui'.state.ticksSinceLastStateSwitch = 0
                 /\ ui'.ticksPerApp =
                      DurationTicks(ui', ui'.state.currentApp, TIME_PER_APP)
            ELSE ui'.state.ticksSinceLastStateSwitch < ui'.ticksPerTransition
    ]_vars

\* C23: in every reachable state with a non-empty registry the locked next
\* page is a valid page index while the state is IN_TRANSITION, and it is
\* -1 whenever the state is FIXED.
C23_CacheSetIffInTransition ==
  /\ (ui.state.appState = IN_TRANSITION /\ ui.AppCount > 0
        => /\ ui.state.cachedNextApp >= 0
           /\ ui.state.cachedNextApp < Len(ui.apps))
  /\ (ui.state.appState = FIXED => ui.state.cachedNextApp = -1)

\* C24: whenever a tick has drawn pages in the IN_TRANSITION state, the tick
\* counter is at least 0 and below ticksPerTransition, and each page offset
\* is within one page height.
C24_ProgressBelowOne ==
  (frameOps # << >> /\ drawn # << >> /\ ui.state.appState = IN_TRANSITION)
     => /\ ui.state.ticksSinceLastStateSwitch >= 0
        /\ ui.state.ticksSinceLastStateSwitch < ui.ticksPerTransition
        /\ \A i \in 1..Len(drawn) :
              drawn[i].y >= 0 - PageHeight /\ drawn[i].y <= PageHeight

\* C25: the catch-up that a fired update() adds to the tick counter is the
\* number of whole frame intervals contained in the lateness, for every
\* lateness (167 ms and 400 ms included): it is never negative, and it is
\* added with auto-rotation on or off; only the first update after start
\* adds none.
C25_CatchUpWholeIntervals ==
  /\ late >= 0
  /\ caughtUp >= 0
  /\ caughtUp = IF firstUpdate THEN 0
                ELSE late \div F32Trunc(ui.updateInterval)

\* C25 witness: with auto-rotation off, a frame 167 ms late has fired after an
\* earlier frame and 5 ticks were added.
C25_Witness ==
  /\ late = 167
  /\ ~ui.setAutoTransition
  /\ ~firstUpdate
  /\ caughtUp = 5

\* C26: in every frame a tick draws, no two page callbacks are given the same
\* icon-animation player, and no overlay callback is given a player that a
\* page callback of the same frame is given.
C26_DistinctPlayers ==
  frameOps # << >> =>
     /\ \A i, j \in 1..Len(drawn) :
           i # j => drawn[i].player # drawn[j].player
     /\ \A i \in 1..Len(drawn) : \A k \in 1..Len(drawOverlays(ui)) :
           drawOverlays(ui)[k].player # drawn[i].player

\* C27: a nextApp() or previousApp() call made while the state is
\* IN_TRANSITION changes no field of the scheduler state (appState,
\* currentApp, ticksSinceLastStateSwitch, appTransitionDirection,
\* cachedNextApp, manuelControll), nor the pending page number or the saved
\* direction.
C27_StepIgnoredInTransition ==
  [][ ((NavNext \/ NavPrevious) /\ ui.state.appState = IN_TRANSITION)
        => /\ ui'.state = ui.state
           /\ ui'.nextAppNumber = ui.nextAppNumber
           /\ ui'.lastTransitionDirection = ui.lastTransitionDirection ]_vars

\* C27 witness: nextApp() or previousApp() has returned without selecting a
\* page, in a transition that has already advanced by at least one tick.
C27_Witness ==
  /\ lastCall.name \in {"nextApp", "previousApp"}
  /\ ui.calls = 0
  /\ ui.state.appState = IN_TRANSITION
  /\ ui.state.ticksSinceLastStateSwitch > 0

\* C28: a transitionToApp(app) or switchToApp(app) call with app not below
\* AppCount changes nothing in the scheduler object, and a transitionToApp(app)
\* call that starts a transition sets the direction to -1 when app is below
\* currentApp and to 1 otherwise.
C28_OutOfRangeRejected ==
  [][ \A app \in 0..MaxAppArg :
        /\ ((NavJump(app) \/ NavSwitch(app)) /\ app >= ui.AppCount)
              => ui' = Fresh(ui)
        /\ (NavJump(app) /\ app < ui.AppCount /\ app # ui.state.currentApp)
              => /\ ui'.state.appState = IN_TRANSITION
                 /\ ui'.state.appTransitionDirection =
                       IF app < ui.state.currentApp THEN -1 ELSE 1 ]_vars

\* C28 witness: transitionToApp(app) with app not below the page count of a
\* non-empty registry has returned during a transition that had advanced,
\* and the transition stands as it was.
C28_Witness ==
  /\ lastCall.name = "transitionToApp"
  /\ ui.AppCount > 0
  /\ lastCall.app >= ui.AppCount
  /\ ui.state.appState = IN_TRANSITION
  /\ ui.state.ticksSinceLastStateSwitch > 0

\* C29: whenever the scheduler is FIXED with manuelControll cleared, the
\* transition direction is the one in effect before the first manual request,
\* which is the initial direction 1 (only manual requests set another one).
C29_DirectionRestored ==
  (ui.state.appState = FIXED /\ ~ui.state.manuelControll)
     => ui.state.appTransitionDirection = InitUiState.appTransitionDirection

(***************************************************************************)
(* Properties of the spectrum page.                                        *)
(***************************************************************************)
\* C30: when a poll of the spectrum page has returned false, the bars drawn
\* in that frame are the bars of the previous successful poll.
C30_FailedPollHoldsFrame ==
  (consumer.pc = "ret" /\ ~consumer.success)
     => SpectrumApp(consumer, outputBands) = readHist.lastGood

(***************************************************************************)
(* Properties of the band mapping.                                         *)
(***************************************************************************)
\* C31: for every band the loop has computed: its bin range is non-empty and
\* lies within [2, FFT_SAMPLES/2]; it starts where the range of the band
\* before it ends and is at least as wide; and its value is in 0..255, is 0
\* when the mean magnitude is below FFT_NOISE, and is 255 when the scaled
\* value exceeds 255.
C31_BandsPartition ==
  producer.pc = "band" =>
    \A b \in 0..(producer.i - 1) :
       LET count == EndBin(b) - StartBin(b)
           S == BinSum(producer.vReal, StartBin(b), EndBin(b))
       IN /\ StartBin(b) < EndBin(b)
          /\ StartBin(b) >= 2
          /\ EndBin(b) <= FFT_SAMPLES \div 2
          /\ b > 0 => /\ StartBin(b) = EndBin(b - 1)
                      /\ count >= EndBin(b - 1) - StartBin(b - 1)
          /\ tempBands[b + 1] \in 0..255
          /\ S < FFT_NOISE * count => tempBands[b + 1] = 0
          /\ (S - FFT_NOISE * count) * 255 > 255 * FFT_AMPLITUDE * count
                => tempBands[b + 1] = 255

\* C32: the lock of the band buffer is held by the audio task exactly from
\* its successful take to its give, around the memcpy into _sharedBands
\* alone (not while it reads the audio input, computes the bands or
\* delays), and by the render thread exactly from its successful take to its
\* give, around the copy out; _sharedBands is written only by the audio
\* task's memcpy and read only by the render thread's memcpy, both under the
\* lock; and in no reachable state is a running thread without a step.
C32_LockDiscipline ==
  /\ [](/\ (audioMutex = "producer") = (producer.pc \in {"copy", "give"})
        /\ (audioMutex = "consumer") = (consumer.pc \in {"copy", "fill", "give"})
        /\ (producer.pc \in {"sample", "take", "copy", "give", "delay"}
               => ENABLED ProducerStep)
        /\ ENABLED ConsumerStep)
  /\ [][ /\ (sharedBands' # sharedBands) => (ProducerCopy /\ audioMutex = "producer")
         /\ ProducerCopy => (audioMutex = "producer" /\ audioMutex' = "producer")
         /\ ReadCopy => (audioMutex = "consumer" /\ audioMutex' = "consumer")
         /\ (audioMutex = "producer" /\ audioMutex' # "producer") => ProducerGive
         /\ (audioMutex = "consumer" /\ audioMutex' # "consumer") => ReadGive ]_vars

\* C32 witness: the render thread has taken the lock, copied and released it
\* while the audio task, which had published before, was refused the lock.
C32_Witness ==
  /\ audioMutex = "free"
  /\ consumer.pc = "ret"
  /\ consumer.success
  /\ consumer.contended
  /\ complete # Filled(NumBands, 0)

\* C33: with both threads scheduled and the mutex created, an audio task
\* that completes audio blocks again and again publishes a band array again
\* and again, and the render thread's polls succeed again and again.
C33_NoStarvation ==
  (audioMutex = "free")
     => /\ ([]<>(producer.pc = "take")) => []<><<ProducerGive>>_vars
        /\ []<><<ReadGive>>_vars

(***************************************************************************)
(* Properties of page changes.                                             *)
(***************************************************************************)
\* C34: currentApp changes only in a switchToApp call or in the tick that
\* completes a transition (IN_TRANSITION to FIXED), and a transition that
\* completes has had at least one frame drawn in IN_TRANSITION.
C34_PageChangesThroughTransition ==
  [][ ui'.state.currentApp # ui.state.currentApp
        => \/ \E app \in 0..MaxAppArg : SwitchToApp(app)
           \/ /\ UpdateCall
              /\ ui.state.appState = IN_TRANSITION
              /\ ui'.state.appState = FIXED
              /\ shown ]_vars

\* C35: whatever registry replacements, requests and ticks have happened,
\* every page callback a tick invokes is for an index from 0 to below the
\* registry size, AppCount is the registry size, and the two places that
\* read a page's duration (the tick that completes a transition, and
\* switchToApp) read it for such an index.
C35_PageIndexInRange ==
  /\ [](/\ \A i \in 1..Len(drawn) :
              drawn[i].app >= 0 /\ drawn[i].app < Len(ui.apps)
        /\ ui.AppCount = Len(ui.apps))
  /\ [][ /\ (UpdateCall /\ ui.state.appState = IN_TRANSITION
                        /\ ui'.state.appState = FIXED)
               => (ui'.state.currentApp >= 0
                     /\ ui'.state.currentApp < Len(ui'.apps))
         /\ \A app \in 0..MaxAppArg :
               (SwitchToApp(app) /\ ui' # Fresh(ui)) => app < Len(ui.apps) ]_vars

\* C35 witness: a tick has drawn a frame after the registry was replaced by
\* a shorter, non-empty one that no longer holds the current page, and has
\* invoked no page callback.
C35_Witness ==
  /\ frameOps # << >>
  /\ Len(ui.apps) > 0
  /\ ui.state.currentApp >= Len(ui.apps)
  /\ drawn = << >>

\* C36: with update() the only entry point called (no manual request at
\* all), every target a tick of auto-rotation locks is an enabled page of
\* the registry, and the page that becomes current when a transition
\* completes is an enabled page.
C36_AutoRotationShowsEnabled ==
  [][ TickCall =>
        /\ (ui.state.appState = FIXED /\ ui'.state.appState = IN_TRANSITION)
              => /\ ui'.state.cachedNextApp >= 0
                 /\ ui'.state.cachedNextApp < Len(ui'.apps)
                 /\ ui'.apps[ui'.state.cachedNextApp + 1].enabled
        /\ (ui.state.appState = IN_TRANSITION /\ ui'.state.appState = FIXED)
              => /\ ui'.state.currentApp < Len(ui'.apps)
                 /\ ui'.apps[ui'.state.currentApp + 1].enabled ]_vars

\* C37: transitionToApp(app) with app the current page changes nothing of
\* the scheduler: the elapsed ticks of the page in FIXED and the progress
\* of a running transition stay as they were.
C37_JumpToCurrentIsNoOp ==
  [][ \A app \in 0..MaxAppArg :
        (NavJump(app) /\ app = ui.state.currentApp)
           => ui' = Fresh(ui) ]_vars

\* C38: once a viewer is subscribed for good, with the callback registered,
\* WiFi up and the display showing frame f without further change, a
\* broadcast of the buffer of f reaches the subscribers, whatever publishes
\* were dropped before the viewer came.
C38_ViewerEventuallyReceivesFrame ==
  \A f \in Frames :
     <>[](lv.callback /\ connected /\ subscribers /\ leds = f)
        => <>(subscribers /\ lvHist.sends = <<FillBuffer(f)>>)

\* C39: before the first update() the scheduler is FIXED on page 0 with an
\* empty target cache and no pending jump target (nextAppNumber = -1), and
\* the transition auto-rotation starts from an enabled page 0 has the next
\* enabled page of the registry as its target.
C39_ConstructedStateDefined ==
  /\ [](ui.state.lastUpdate = 0
          => /\ ui.state.appState = FIXED
             /\ ui.state.currentApp = 0
             /\ ui.state.cachedNextApp = -1
             /\ ~ui.state.manuelControll
             /\ ui.nextAppNumber = -1)
  /\ [][ (/\ TickCall
          /\ ui.state.appState = FIXED
          /\ ui'.state.appState = IN_TRANSITION
          /\ ui.state.currentApp = 0
          /\ ui.apps[1].enabled)
            => /\ ui'.state.cachedNextApp \in 1..(Len(ui.apps) - 1)
               /\ ui.apps[ui'.state.cachedNextApp + 1].enabled
               /\ \A j \in 1..(ui'.state.cachedNextApp - 1) :
                     ~ui.apps[j + 1].enabled ]_vars
=============================================================================
